---- MODULE Spec2Model ----
(***************************************************************************)
(* HoloScript front end (packages/compiler-wasm): the lexer (lexer.rs,     *)
(* token.rs), the recursive-descent parser (parser.rs) and the public      *)
(* entry points (lib.rs).                                                  *)
(*                                                                         *)
(* A source is a sequence of characters; a character is a one-character    *)
(* string.  Offsets are UTF-8 byte offsets, columns count characters.      *)
(* Token values, names and keys are sequences of characters.               *)
(***************************************************************************)
EXTENDS Integers, Sequences, FiniteSets, TLC

VARIABLES
    source,      \* the &str handed to Lexer::new / Parser::new
    lexer,       \* Lexer { chars (as index i), line, column, position }
    lex_tokens,  \* the Vec<Token> tokenize() is building / has returned
    pc,          \* where the run is: "lex", "lexed", "parse", "returned", "api"
    tokens,      \* Parser.tokens (trivia filtered out)
    current,     \* Parser.current
    errors,      \* Parser.errors
    ast_body,    \* ast.body of the Ast being built by Parser::parse
    result,      \* the Result<Ast, Vec<ParseError>> returned by Parser::parse
    output,      \* what the lib.rs entry point returned
    holo,        \* a call self.is_assignable_to(other) of types.rs and its answer
    registry     \* a call of traits.rs: its argument and its answer

vars ==
    <<source, lexer, lex_tokens, pc, tokens, current, errors, ast_body, result, output,
      holo, registry>>

(***************************************************************************)
(* Bounds of the model.                                                    *)
(***************************************************************************)
\* longest source, in characters, enumerated character by character
MaxLen == 4
\* longest source, in lexemes, enumerated lexeme by lexeme
MaxChunks == 3

(***************************************************************************)
(* Characters.                                                             *)
(***************************************************************************)
\* chars.peek() == None
NoChar == ""

AsciiDigits == {"0", "1", "2", "3", "4", "5", "6", "7", "8", "9"}

AsciiLetters ==
    {"a", "b", "c", "d", "e", "f", "g", "h", "i", "j", "k", "l", "m",
     "n", "o", "p", "q", "r", "s", "t", "u", "v", "w", "x", "y", "z",
     "A", "B", "C", "D", "E", "F", "G", "H", "I", "J", "K", "L", "M",
     "N", "O", "P", "Q", "R", "S", "T", "U", "V", "W", "X", "Y", "Z"}

\* a non-ASCII alphabetic character, two bytes in UTF-8
TwoByteLetters == {"é"}

is_ascii_digit(ch) == ch \in AsciiDigits

is_alphanumeric(ch) == ch \in AsciiLetters \cup AsciiDigits \cup TwoByteLetters

len_utf8(ch) == IF ch \in TwoByteLetters THEN 2 ELSE 1

\* the byte offset char_indices() reports for the character after the first
\* n: each of the n takes len_utf8 bytes, which is one byte or two
char_index(src, n) == n + Cardinality({k \in 1..n : len_utf8(src[k]) = 2})

\* source.len()
byte_len(src) == char_index(src, Len(src))

(***************************************************************************)
(* token.rs                                                                *)
(***************************************************************************)
Token_new(token_type, value, line, column, start, end) ==
    [token_type |-> token_type, value |-> value, line |-> line,
     column |-> column, start |-> start, end |-> end]

Token_eof(line, column, position) ==
    [token_type |-> "Eof", value |-> <<>>, line |-> line,
     column |-> column, start |-> position, end |-> position]

\* get_keyword() == None
NoKeyword == "None"

get_keyword(w) ==
    CASE w = <<"o", "r", "b">> -> "Orb"
      [] w = <<"e", "n", "t", "i", "t", "y">> -> "Entity"
      [] w = <<"o", "b", "j", "e", "c", "t">> -> "Object"
      [] w = <<"c", "o", "m", "p", "o", "s", "i", "t", "i", "o", "n">> -> "Composition"
      [] w = <<"w", "o", "r", "l", "d">> -> "World"
      [] w = <<"t", "e", "m", "p", "l", "a", "t", "e">> -> "Template"
      [] w = <<"g", "r", "o", "u", "p">> -> "Group"
      [] w = <<"e", "n", "v", "i", "r", "o", "n", "m", "e", "n", "t">> -> "Environment"
      [] w = <<"l", "o", "g", "i", "c">> -> "Logic"
      [] w = <<"n", "p", "c">> -> "Npc"
      [] w = <<"q", "u", "e", "s", "t">> -> "Quest"
      [] w = <<"a", "b", "i", "l", "i", "t", "y">> -> "Ability"
      [] w = <<"d", "i", "a", "l", "o", "g", "u", "e">> -> "Dialogue"
      [] w = <<"s", "t", "a", "t", "e", "_", "m", "a", "c", "h", "i", "n", "e">> -> "StateMachine"
      [] w = <<"a", "c", "h", "i", "e", "v", "e", "m", "e", "n", "t">> -> "Achievement"
      [] w = <<"t", "a", "l", "e", "n", "t", "_", "t", "r", "e", "e">> -> "TalentTree"
      [] w = <<"i", "f">> -> "If"
      [] w = <<"e", "l", "s", "e">> -> "Else"
      [] w = <<"f", "o", "r">> -> "For"
      [] w = <<"w", "h", "i", "l", "e">> -> "While"
      [] w = <<"r", "e", "t", "u", "r", "n">> -> "Return"
      [] w = <<"f", "u", "n", "c", "t", "i", "o", "n">> -> "Function"
      [] w = <<"c", "o", "n", "s", "t">> -> "Const"
      [] w = <<"l", "e", "t">> -> "Let"
      [] w = <<"v", "a", "r">> -> "Var"
      [] w = <<"i", "m", "p", "o", "r", "t">> -> "Import"
      [] w = <<"e", "x", "p", "o", "r", "t">> -> "Export"
      [] w = <<"f", "r", "o", "m">> -> "From"
      [] w = <<"a", "s">> -> "As"
      [] w = <<"u", "s", "i", "n", "g">> -> "Using"
      [] w = <<"e", "x", "t", "e", "n", "d", "s">> -> "Extends"
      [] w = <<"t", "r", "u", "e">> -> "Boolean"
      [] w = <<"f", "a", "l", "s", "e">> -> "Boolean"
      [] w = <<"n", "u", "l", "l">> -> "Null"
      [] OTHER -> NoKeyword

(***************************************************************************)
(* lexer.rs.  A lexer state L is [i, line, column, position]: i characters *)
(* of the source have been taken from the chars iterator.  Every scanning  *)
(* function returns [tok |-> the token, lex |-> the lexer state after it]. *)
(***************************************************************************)
Lexer_new == [i |-> 0, line |-> 1, column |-> 1, position |-> 0]

\* self.chars.peek(), the character only
peek_char(src, L) == IF L.i < Len(src) THEN src[L.i + 1] ELSE NoChar

\* the byte offset self.chars.peek() reports with the character
peek_start(src, L) == char_index(src, L.i)

lexer_advance(src, L) ==
    IF L.i < Len(src)
    THEN [L EXCEPT !.i = @ + 1,
                   !.position = char_index(src, L.i) + len_utf8(src[L.i + 1]),
                   !.column = @ + 1]
    ELSE L

peek_next(src, L) == IF L.i + 1 < Len(src) THEN src[L.i + 2] ELSE NoChar

RECURSIVE skip_whitespace(_, _)
skip_whitespace(src, L) ==
    IF peek_char(src, L) \in {" ", "\t", "\r"}
    THEN skip_whitespace(src, lexer_advance(src, L))
    ELSE L

single_char_token(src, L, token_type, value) ==
    LET L1 == lexer_advance(src, L)
    IN  [tok |-> Token_new(token_type, value, L.line, L.column, L.position, L1.position),
         lex |-> L1]

escaped_char(escaped) ==
    CASE escaped = "n" -> "\n"
      [] escaped = "t" -> "\t"
      [] escaped = "r" -> "\r"
      [] OTHER -> escaped

\* the while loop of read_string; st is the token's [start, line, column]
RECURSIVE read_string_loop(_, _, _, _, _)
read_string_loop(src, L, quote, value, st) ==
    LET ch == peek_char(src, L)
    IN  IF ch = NoChar
        THEN [tok |-> Token_new("Invalid", value, st.line, st.column, st.start, L.position),
              lex |-> L]
        ELSE IF ch = quote
        THEN LET L1 == lexer_advance(src, L)
             IN  [tok |-> Token_new("String", value, st.line, st.column, st.start, L1.position),
                  lex |-> L1]
        ELSE IF ch = "\\"
        THEN LET L1 == lexer_advance(src, L)
                 escaped == peek_char(src, L1)
             IN  IF escaped # NoChar
                 THEN read_string_loop(src, lexer_advance(src, L1), quote,
                                       Append(value, escaped_char(escaped)), st)
                 ELSE read_string_loop(src, L1, quote, value, st)
        ELSE IF ch = "\n"
        THEN read_string_loop(src,
                              lexer_advance(src, [L EXCEPT !.line = @ + 1, !.column = 0]),
                              quote, Append(value, ch), st)
        ELSE read_string_loop(src, lexer_advance(src, L), quote, Append(value, ch), st)

read_string(src, L, quote) ==
    read_string_loop(src, lexer_advance(src, L), quote, <<>>,
                     [start |-> L.position, line |-> L.line, column |-> L.column])

\* while peek is an ASCII digit: push it and advance; returns [lex, value]
RECURSIVE read_digits(_, _, _)
read_digits(src, L, value) ==
    IF is_ascii_digit(peek_char(src, L))
    THEN read_digits(src, lexer_advance(src, L), Append(value, peek_char(src, L)))
    ELSE [lex |-> L, value |-> value]

read_number(src, L) ==
    LET \* negative sign
        s1 == IF peek_char(src, L) = "-"
              THEN [lex |-> lexer_advance(src, L), value |-> <<"-">>]
              ELSE [lex |-> L, value |-> <<>>]
        \* integer part
        s2 == read_digits(src, s1.lex, s1.value)
        \* decimal part: only when the character after '.' is a digit
        s3 == IF peek_char(src, s2.lex) = "." /\ is_ascii_digit(peek_next(src, s2.lex))
              THEN read_digits(src, lexer_advance(src, s2.lex), Append(s2.value, "."))
              ELSE s2
        \* exponent part
        s4 == IF peek_char(src, s3.lex) \in {"e", "E"}
              THEN LET e1 == [lex |-> lexer_advance(src, s3.lex),
                              value |-> Append(s3.value, peek_char(src, s3.lex))]
                       e2 == IF peek_char(src, e1.lex) \in {"+", "-"}
                             THEN [lex |-> lexer_advance(src, e1.lex),
                                   value |-> Append(e1.value, peek_char(src, e1.lex))]
                             ELSE e1
                   IN  read_digits(src, e2.lex, e2.value)
              ELSE s3
    IN  [tok |-> Token_new("Number", s4.value, L.line, L.column, L.position, s4.lex.position),
         lex |-> s4.lex]

\* while peek is alphanumeric or '_': push it and advance; returns [lex, value]
RECURSIVE read_word(_, _, _)
read_word(src, L, value) ==
    IF is_alphanumeric(peek_char(src, L)) \/ peek_char(src, L) = "_"
    THEN read_word(src, lexer_advance(src, L), Append(value, peek_char(src, L)))
    ELSE [lex |-> L, value |-> value]

read_identifier(src, L) ==
    LET w == read_word(src, L, <<>>)
        token_type == IF get_keyword(w.value) = NoKeyword
                      THEN "Identifier" ELSE get_keyword(w.value)
    IN  [tok |-> Token_new(token_type, w.value, L.line, L.column, L.position, w.lex.position),
         lex |-> w.lex]

read_trait(src, L) ==
    LET w == read_word(src, lexer_advance(src, L), <<"@">>)
    IN  [tok |-> Token_new("Trait", w.value, L.line, L.column, L.position, w.lex.position),
         lex |-> w.lex]

RECURSIVE read_line_comment_loop(_, _, _)
read_line_comment_loop(src, L, value) ==
    IF peek_char(src, L) \in {NoChar, "\n"}
    THEN [lex |-> L, value |-> value]
    ELSE read_line_comment_loop(src, lexer_advance(src, L), Append(value, peek_char(src, L)))

read_line_comment(src, L, start, start_line, start_column) ==
    LET w == read_line_comment_loop(src, L, <<>>)
    IN  [tok |-> Token_new("Comment", w.value, start_line, start_column, start, w.lex.position),
         lex |-> w.lex]

\* while let Some((_, ch)) = self.advance()
RECURSIVE read_block_comment_loop(_, _, _)
read_block_comment_loop(src, L, value) ==
    IF peek_char(src, L) = NoChar
    THEN [lex |-> L, value |-> value]
    ELSE LET ch == peek_char(src, L)
             L1 == lexer_advance(src, L)
         IN  IF ch = "*" /\ peek_char(src, L1) = "/"
             THEN [lex |-> lexer_advance(src, L1), value |-> value]
             ELSE read_block_comment_loop(
                      src,
                      IF ch = "\n" THEN [L1 EXCEPT !.line = @ + 1, !.column = 1] ELSE L1,
                      Append(value, ch))

read_block_comment(src, L, start, start_line, start_column) ==
    LET w == read_block_comment_loop(src, L, <<>>)
    IN  [tok |-> Token_new("BlockComment", w.value, start_line, start_column, start,
                           w.lex.position),
         lex |-> w.lex]

\* the arms '!', '<', '>', '&', '|': one character, or two when the
\* second is `second`
one_or_two(src, L, start, second, two_type, two_value, one_type, one_value) ==
    LET L1 == lexer_advance(src, L)
        L2 == lexer_advance(src, L1)
    IN  IF peek_char(src, L1) = second
        THEN [tok |-> Token_new(two_type, two_value, L.line, L.column, start, L2.position),
              lex |-> L2]
        ELSE [tok |-> Token_new(one_type, one_value, L.line, L.column, start, L1.position),
              lex |-> L1]

\* the '=' arm
equals_arm(src, L, start) ==
    LET L1 == lexer_advance(src, L)
        L2 == lexer_advance(src, L1)
    IN  IF peek_char(src, L1) = ">"
        THEN [tok |-> Token_new("Arrow", <<"=", ">">>, L.line, L.column, start, L2.position),
              lex |-> L2]
        ELSE IF peek_char(src, L1) = "="
        THEN [tok |-> Token_new("Eq", <<"=", "=">>, L.line, L.column, start, L2.position),
              lex |-> L2]
        ELSE [tok |-> Token_new("Equals", <<"=">>, L.line, L.column, start, L1.position),
              lex |-> L1]

\* the '.' arm
dot_arm(src, L, start) ==
    LET L1 == lexer_advance(src, L)
        L2 == lexer_advance(src, L1)
        L3 == lexer_advance(src, L2)
    IN  IF peek_char(src, L1) = "."
        THEN IF peek_char(src, L2) = "."
             THEN [tok |-> Token_new("Spread", <<".", ".", ".">>, L.line, L.column, start,
                                     L3.position),
                   lex |-> L3]
             ELSE [tok |-> Token_new("Dot", <<".">>, L.line, L.column, start, start + 1),
                   lex |-> L2]
        ELSE [tok |-> Token_new("Dot", <<".">>, L.line, L.column, start, start + 1),
              lex |-> L1]

\* the '/' arm
slash_arm(src, L, start) ==
    LET L1 == lexer_advance(src, L)
    IN  IF peek_char(src, L1) = "/"
        THEN read_line_comment(src, lexer_advance(src, L1), start, L.line, L.column)
        ELSE IF peek_char(src, L1) = "*"
        THEN read_block_comment(src, lexer_advance(src, L1), start, L.line, L.column)
        ELSE [tok |-> Token_new("Slash", <<"/">>, L.line, L.column, start, start + 1),
              lex |-> L1]

\* the '\n' arm
newline_arm(src, L, start) ==
    LET L1 == lexer_advance(src, L)
    IN  [tok |-> Token_new("Newline", <<"\n">>, L.line, L.column, start, L1.position),
         lex |-> [L1 EXCEPT !.line = @ + 1, !.column = 1]]

\* mutant of invalid_arm: the character is reported but not consumed
invalid_arm_no_advance(src, L, start, ch) ==
    [tok |-> Token_new("Invalid", <<ch>>, L.line, L.column, start, L.position),
     lex |-> L]

\* the catch-all arm
invalid_arm(src, L, start, ch) ==
    LET L1 == lexer_advance(src, L)
    IN  [tok |-> Token_new("Invalid", <<ch>>, L.line, L.column, start, L1.position),
         lex |-> L1]

next_token(src, L0) ==
    LET L == skip_whitespace(src, L0)
        ch == peek_char(src, L)
        start == peek_start(src, L)
    IN  IF ch = NoChar
        THEN [tok |-> Token_eof(L.line, L.column, L.position), lex |-> L]
        ELSE CASE ch = "/" -> slash_arm(src, L, start)
               [] ch = "#" ->
                    read_line_comment(src, lexer_advance(src, L), start, L.line, L.column)
               [] ch \in {"\"", "'"} -> read_string(src, L, ch)
               [] is_ascii_digit(ch) -> read_number(src, L)
               [] ch = "-" /\ is_ascii_digit(peek_next(src, L)) -> read_number(src, L)
               [] ch = "@" -> read_trait(src, L)
               [] ch \in AsciiLetters \cup {"_"} -> read_identifier(src, L)
               [] ch = ":" -> single_char_token(src, L, "Colon", <<":">>)
               [] ch = "," -> single_char_token(src, L, "Comma", <<",">>)
               [] ch = "." -> dot_arm(src, L, start)
               [] ch = "=" -> equals_arm(src, L, start)
               [] ch = "+" -> single_char_token(src, L, "Plus", <<"+">>)
               [] ch = "*" -> single_char_token(src, L, "Star", <<"*">>)
               [] ch = "%" -> single_char_token(src, L, "Percent", <<"%">>)
               [] ch = "!" -> one_or_two(src, L, start, "=", "Ne", <<"!", "=">>,
                                         "Bang", <<"!">>)
               [] ch = "<" -> one_or_two(src, L, start, "=", "Le", <<"<", "=">>,
                                         "Lt", <<"<">>)
               [] ch = ">" -> one_or_two(src, L, start, "=", "Ge", <<">", "=">>,
                                         "Gt", <<">">>)
               [] ch = "&" -> one_or_two(src, L, start, "&", "And", <<"&", "&">>,
                                         "Invalid", <<"&">>)
               [] ch = "|" -> one_or_two(src, L, start, "|", "Or", <<"|", "|">>,
                                         "Invalid", <<"|">>)
               [] ch = "{" -> single_char_token(src, L, "LBrace", <<"{">>)
               [] ch = "}" -> single_char_token(src, L, "RBrace", <<"}">>)
               [] ch = "[" -> single_char_token(src, L, "LBracket", <<"[">>)
               [] ch = "]" -> single_char_token(src, L, "RBracket", <<"]">>)
               [] ch = "(" -> single_char_token(src, L, "LParen", <<"(">>)
               [] ch = ")" -> single_char_token(src, L, "RParen", <<")">>)
               [] ch = "\n" -> newline_arm(src, L, start)
               [] OTHER -> invalid_arm(src, L, start, ch)

\* mutant of tokenize_push: the loop breaks before the Eof token is pushed
tokenize_push_break_first(toks, tok) ==
    [tokens |-> IF tok.token_type = "Eof" THEN toks ELSE Append(toks, tok),
     is_eof |-> tok.token_type = "Eof"]

\* one turn of the loop of tokenize: push the token, break on Eof
tokenize_push(toks, tok) ==
    [tokens |-> Append(toks, tok), is_eof |-> tok.token_type = "Eof"]

\* the loop of tokenize() from the point where next_token() has returned r:
\* run to its return, it gives [tokens, lex]
RECURSIVE tokenize_loop(_, _, _)
tokenize_loop(src, toks, r) ==
    IF tokenize_push(toks, r.tok).is_eof
    THEN [tokens |-> tokenize_push(toks, r.tok).tokens, lex |-> r.lex]
    ELSE tokenize_loop(src, tokenize_push(toks, r.tok).tokens, next_token(src, r.lex))

\* tokenize() from lexer state L with toks already pushed
tokenize_from(src, L, toks) == tokenize_loop(src, toks, next_token(src, L))

tokenize(src) == tokenize_from(src, Lexer_new, <<>>).tokens

(***************************************************************************)
(* parser.rs.  The parser's cursor is threaded through the productions: a  *)
(* production takes the value of self.current when it is called and        *)
(* returns Ok(cursor after it, node) or Err(cursor at the error, error).   *)
(* self.tokens is the variable tokens; tokens[c + 1] is self.tokens[c].    *)
(* Option<T> is a sequence: None is <<>>, Some(x) is <<x>>.                *)
(***************************************************************************)
None == <<>>
Some(x) == <<x>>

\* Parser::new: the filter over the token vector
\* mutant of filter_trivia: comments stay in the token vector
filter_trivia_keeps_comments(toks) ==
    SelectSeq(toks, LAMBDA t : t.token_type \notin {"Whitespace", "Newline"})

filter_trivia(toks) ==
    SelectSeq(toks, LAMBDA t :
        t.token_type \notin {"Whitespace", "Newline", "Comment", "BlockComment"})

ParseError_new(message, line, column) ==
    [message |-> message, line |-> line, column |-> column]

peek(c) == tokens[c + 1]

is_at_end(c) == peek(c).token_type = "Eof"

check(c, token_type) == ~is_at_end(c) /\ peek(c).token_type = token_type

peek_next_is(c, token_type) ==
    IF c + 1 >= Len(tokens) THEN FALSE ELSE tokens[c + 2].token_type = token_type

\* advance(): the cursor after it
advance(c) == IF ~is_at_end(c) THEN c + 1 ELSE c

\* advance(): the token it returns, &self.tokens[self.current - 1]
advanced(c) == tokens[advance(c)]

error_zero_based(c, message) ==
    ParseError_new(message, peek(c).line - 1, peek(c).column - 1)

\* self.error(message), at cursor c
error(c, message) == ParseError_new(message, peek(c).line, peek(c).column)

Ok(c, node) == [ok |-> TRUE, cur |-> c, node |-> node]

Err(c, message) == [ok |-> FALSE, cur |-> c, error |-> error(c, message)]

\* the ? operator: an Err result returns from the production at once, an Ok
\* result goes on to the rest of the production
and_then(r, op(_)) == IF ~r.ok THEN r ELSE op(r)

\* mutant of expect: a missing token is passed over in silence
expect_lenient(c, token_type) ==
    IF check(c, token_type) THEN Ok(advance(c), advanced(c)) ELSE Ok(c, peek(c))

expect(c, token_type) ==
    IF check(c, token_type)
    THEN Ok(advance(c), advanced(c))
    ELSE Err(c, <<"Expected ", token_type, ", got ", peek(c).token_type>>)

\* mutant of expect_identifier: a String token is taken as the name as well
expect_identifier_takes_string(c) ==
    IF check(c, "String") \/ check(c, "Identifier")
    THEN Ok(advance(c), advanced(c).value)
    ELSE Err(c, <<"Expected identifier">>)

expect_identifier(c) ==
    IF check(c, "Identifier")
    THEN Ok(advance(c), advanced(c).value)
    ELSE Err(c, <<"Expected identifier">>)

expect_string(c) ==
    IF check(c, "String")
    THEN Ok(advance(c), advanced(c).value)
    ELSE Err(c, <<"Expected string">>)

expect_string_or_identifier(c) ==
    IF check(c, "String") \/ check(c, "Identifier")
    THEN Ok(advance(c), advanced(c).value)
    ELSE Err(c, <<"Expected string or identifier">>)

expect_identifier_or_string(c) == expect_string_or_identifier(c)

\* the token kinds synchronize stops at
SyncTokens ==
    {"Composition", "World", "Orb", "Entity", "Object", "Template",
     "Import", "Export", "Function"}

\* the while loop of synchronize
RECURSIVE synchronize_loop(_)
synchronize_loop(c) ==
    IF is_at_end(c) THEN c
    ELSE IF peek(c).token_type \in SyncTokens THEN c
    ELSE synchronize_loop(advance(c))

synchronize_without_advance(c) == synchronize_loop(c)

\* synchronize whose loop does not stop at Eof: the cursor ends behind the
\* last token
synchronize_past_eof(c) == Len(tokens)

synchronize(c) == synchronize_loop(advance(c))

current_location(c) ==
    [line |-> peek(c).line, column |-> peek(c).column, offset |-> peek(c).start]

\* mutant of location_from: the two ends are exchanged
location_from_exchanged(c, start) ==
    LET end_token == IF c > 0 THEN tokens[c] ELSE peek(c)
    IN  [start |-> [line |-> end_token.line, column |-> end_token.column,
                    offset |-> end_token.end],
         end |-> start]

\* location_from(start), at cursor c
location_from(c, start) ==
    LET end_token == IF c > 0 THEN tokens[c] ELSE peek(c)
    IN  [start |-> start,
         end |-> [line |-> end_token.line, column |-> end_token.column,
                  offset |-> end_token.end]]

is_object_type(name) ==
    name \in { <<"c", "u", "b", "e">>,
               <<"s", "p", "h", "e", "r", "e">>,
               <<"p", "l", "a", "n", "e">>,
               <<"c", "y", "l", "i", "n", "d", "e", "r">>,
               <<"m", "e", "s", "h">>,
               <<"l", "i", "g", "h", "t">>,
               <<"c", "a", "m", "e", "r", "a">> }

is_child_object(c) ==
    peek(c).token_type \in
        {"Orb", "Entity", "Object", "Group", "Template", "Environment", "Logic",
         "Npc", "Quest", "Dialogue", "Using"}

\* str::starts_with
starts_with(name, prefix) ==
    Len(name) >= Len(prefix) /\ SubSeq(name, 1, Len(prefix)) = prefix

\* str::trim_start_matches('@')
RECURSIVE trim_start_at(_)
trim_start_at(value) ==
    IF value # <<>> /\ Head(value) = "@" THEN trim_start_at(Tail(value)) ELSE value

\* token.value.parse::<f64>().unwrap_or(0.0): a Number token's text is
\* -?d+(.d+)?([eE][+-]?d*)? and fails to parse exactly when the exponent has
\* no digit; the value is kept as the decimal text that denotes it
parse_f64(raw) ==
    IF raw # <<>> /\ raw[Len(raw)] \in {"e", "E", "+", "-"} THEN <<"0">> ELSE raw

\* The productions call one another in cycles (an expression holds an array
\* that holds expressions, an object body holds top-level declarations), so a
\* call of a production that closes such a cycle is written
\* production("parse_x", c): self.parse_x() with the cursor at c.
RECURSIVE production(_, _)

(***************************************************************************)
(* Expressions.                                                            *)
(***************************************************************************)
BinaryExpression(op, left, right) ==
    [type |-> "BinaryExpression", operator |-> op, left |-> left, right |-> right,
     loc |-> None]

parse_primary(c) ==
    LET token == peek(c)
    IN  CASE token.token_type = "String" ->
                Ok(advance(c), [type |-> "String", value |-> token.value, loc |-> None])
          [] token.token_type = "Number" ->
                Ok(advance(c), [type |-> "Number", value |-> parse_f64(token.value),
                                raw |-> token.value, loc |-> None])
          [] token.token_type = "Boolean" ->
                Ok(advance(c), [type |-> "Boolean",
                                value |-> (token.value = <<"t", "r", "u", "e">>),
                                loc |-> None])
          [] token.token_type = "Null" ->
                Ok(advance(c), [type |-> "Null", loc |-> None])
          [] token.token_type = "Identifier" ->
                Ok(advance(c), [type |-> "Identifier", name |-> token.value, loc |-> None])
          [] token.token_type = "LBracket" -> production("parse_array", c)
          [] token.token_type = "LBrace" -> production("parse_object_literal", c)
          [] token.token_type = "LParen" ->
                and_then(production("parse_expression", advance(c)), LAMBDA e :
                    and_then(expect(e.cur, "RParen"), LAMBDA rp : Ok(rp.cur, e.node)))
          [] token.token_type = "Spread" ->
                and_then(production("parse_expression", advance(c)), LAMBDA e :
                    Ok(e.cur, [type |-> "SpreadElement", argument |-> e.node,
                                    loc |-> None]))
          [] OTHER -> Err(c, <<"Unexpected token: ", token.token_type>>)

\* the loop of parse_member_expression
RECURSIVE member_loop(_, _)
member_loop(c, expr) ==
    IF check(c, "Dot")
    THEN and_then(expect_identifier(advance(c)), LAMBDA property :
             member_loop(property.cur,
                      [type |-> "MemberExpression", object |-> expr,
                       property |-> [type |-> "Identifier", name |-> property.node,
                                     loc |-> None],
                       computed |-> FALSE, loc |-> None]))
    ELSE IF check(c, "LBracket")
    THEN and_then(production("parse_expression", advance(c)), LAMBDA property :
             and_then(expect(property.cur, "RBracket"), LAMBDA rb :
                      member_loop(rb.cur,
                               [type |-> "MemberExpression", object |-> expr,
                                property |-> property.node,
                                computed |-> TRUE, loc |-> None])))
    ELSE Ok(c, expr)

parse_member_expression(c) ==
    and_then(parse_primary(c), LAMBDA p : member_loop(p.cur, p.node))

\* the argument loop of parse_call_expression
RECURSIVE call_arguments_loop(_, _)
call_arguments_loop(c, arguments) ==
    IF check(c, "RParen") \/ is_at_end(c) THEN Ok(c, arguments)
    ELSE and_then(production("parse_expression", c), LAMBDA a :
             IF ~check(a.cur, "RParen")
             THEN and_then(expect(a.cur, "Comma"), LAMBDA comma :
                      call_arguments_loop(comma.cur, Append(arguments, a.node)))
             ELSE call_arguments_loop(a.cur, Append(arguments, a.node)))

\* the loop of parse_call_expression
RECURSIVE call_loop(_, _)
call_loop(c, expr) ==
    IF check(c, "LParen")
    THEN and_then(call_arguments_loop(advance(c), <<>>), LAMBDA args :
             and_then(expect(args.cur, "RParen"), LAMBDA rp :
                      call_loop(rp.cur,
                               [type |-> "CallExpression", callee |-> expr,
                                arguments |-> args.node, loc |-> None])))
    ELSE Ok(c, expr)

parse_call_expression(c) ==
    and_then(parse_member_expression(c), LAMBDA m : call_loop(m.cur, m.node))

parse_unary_expression(c) ==
    IF check(c, "Bang") \/ check(c, "Minus")
    THEN and_then(production("parse_unary_expression", advance(c)), LAMBDA argument :
             Ok(argument.cur,
                [type |-> "UnaryExpression", operator |-> advanced(c).value,
                 argument |-> argument.node, prefix |-> TRUE, loc |-> None]))
    ELSE parse_call_expression(c)

\* The six levels of binary operators.  Each X_loop is parse_X_expression
\* from a point where an operand is due: left is None before the first
\* operand, and Some(the expression so far) after the operator op.
RECURSIVE multiplicative_loop(_, _, _)
multiplicative_loop(c, op, left) ==
    and_then(production("parse_unary_expression", c), LAMBDA operand :
        LET expr == IF left = None THEN operand.node
                         ELSE BinaryExpression(op, left[1], operand.node)
             IN  IF \/ check(operand.cur, "Star")
                    \/ check(operand.cur, "Slash")
                    \/ check(operand.cur, "Percent")
                 THEN multiplicative_loop(advance(operand.cur), advanced(operand.cur).value,
                                         Some(expr))
                 ELSE Ok(operand.cur, expr))

parse_multiplicative_expression(c) == multiplicative_loop(c, <<>>, None)

\* parse_additive_expression taking its operands from parse_unary_expression:
\* '+' and '-' bind as tightly as '*', '/' and '%'
RECURSIVE additive_loop_unary_operands(_, _, _)
additive_loop_unary_operands(c, op, left) ==
    and_then(production("parse_unary_expression", c), LAMBDA operand :
        LET expr == IF left = None THEN operand.node
                         ELSE BinaryExpression(op, left[1], operand.node)
             IN  IF check(operand.cur, "Plus") \/ check(operand.cur, "Minus")
                 THEN additive_loop_unary_operands(advance(operand.cur),
                                                   advanced(operand.cur).value, Some(expr))
                 ELSE Ok(operand.cur, expr))

RECURSIVE additive_loop(_, _, _)
additive_loop(c, op, left) ==
    and_then(parse_multiplicative_expression(c), LAMBDA operand :
        LET expr == IF left = None THEN operand.node
                         ELSE BinaryExpression(op, left[1], operand.node)
             IN  IF check(operand.cur, "Plus") \/ check(operand.cur, "Minus")
                 THEN additive_loop(advance(operand.cur), advanced(operand.cur).value,
                                   Some(expr))
                 ELSE Ok(operand.cur, expr))

parse_additive_expression(c) == additive_loop(c, <<>>, None)

RECURSIVE comparison_loop(_, _, _)
comparison_loop(c, op, left) ==
    and_then(parse_additive_expression(c), LAMBDA operand :
        LET expr == IF left = None THEN operand.node
                         ELSE BinaryExpression(op, left[1], operand.node)
             IN  IF \/ check(operand.cur, "Lt") \/ check(operand.cur, "Gt")
                    \/ check(operand.cur, "Le") \/ check(operand.cur, "Ge")
                 THEN comparison_loop(advance(operand.cur), advanced(operand.cur).value,
                                     Some(expr))
                 ELSE Ok(operand.cur, expr))

parse_comparison_expression(c) == comparison_loop(c, <<>>, None)

RECURSIVE equality_loop(_, _, _)
equality_loop(c, op, left) ==
    and_then(parse_comparison_expression(c), LAMBDA operand :
        LET expr == IF left = None THEN operand.node
                         ELSE BinaryExpression(op, left[1], operand.node)
             IN  IF check(operand.cur, "Eq") \/ check(operand.cur, "Ne")
                 THEN equality_loop(advance(operand.cur), advanced(operand.cur).value,
                                   Some(expr))
                 ELSE Ok(operand.cur, expr))

parse_equality_expression(c) == equality_loop(c, <<>>, None)

RECURSIVE and_loop(_, _, _)
and_loop(c, op, left) ==
    and_then(parse_equality_expression(c), LAMBDA operand :
        LET expr == IF left = None THEN operand.node
                         ELSE BinaryExpression(op, left[1], operand.node)
             IN  IF check(operand.cur, "And")
                 THEN and_loop(advance(operand.cur), advanced(operand.cur).value,
                              Some(expr))
                 ELSE Ok(operand.cur, expr))

parse_and_expression(c) == and_loop(c, <<>>, None)

RECURSIVE or_loop(_, _, _)
or_loop(c, op, left) ==
    and_then(parse_and_expression(c), LAMBDA operand :
        LET expr == IF left = None THEN operand.node
                         ELSE BinaryExpression(op, left[1], operand.node)
             IN  IF check(operand.cur, "Or")
                 THEN or_loop(advance(operand.cur), advanced(operand.cur).value,
                             Some(expr))
                 ELSE Ok(operand.cur, expr))

parse_or_expression(c) == or_loop(c, <<>>, None)

parse_expression(c) == parse_or_expression(c)

parse_value(c) == production("parse_expression", c)

\* the loop of parse_array
RECURSIVE array_loop(_, _)
array_loop(c, elements) ==
    IF check(c, "RBracket") \/ is_at_end(c) THEN Ok(c, elements)
    ELSE and_then(IF check(c, "Spread")
                  THEN and_then(production("parse_expression", advance(c)), LAMBDA argument :
                           Ok(argument.cur,
                                   [type |-> "SpreadElement", argument |-> argument.node,
                                    loc |-> None]))
                  ELSE production("parse_expression", c), LAMBDA e :
             IF ~check(e.cur, "RBracket")
             THEN and_then(expect(e.cur, "Comma"), LAMBDA comma :
                      array_loop(comma.cur, Append(elements, e.node)))
             ELSE array_loop(e.cur, Append(elements, e.node)))

parse_array(c) ==
    and_then(array_loop(advance(c), <<>>), LAMBDA elements :
        and_then(expect(elements.cur, "RBracket"), LAMBDA rb :
                 Ok(rb.cur, [type |-> "Array", elements |-> elements.node,
                                  loc |-> None])))

PropertyNode(key, value, loc) ==
    [type |-> "Property", key |-> key, value |-> value, loc |-> loc]

\* the loop of parse_object_literal_body
RECURSIVE object_literal_loop(_, _)
object_literal_loop(c, properties) ==
    IF check(c, "RBrace") \/ is_at_end(c)
    THEN Ok(c, [type |-> "ObjectLiteral", properties |-> properties, loc |-> None])
    ELSE and_then(expect_identifier_or_string(c), LAMBDA key :
             and_then(expect(key.cur, "Colon"), LAMBDA colon :
                      and_then(production("parse_expression", colon.cur), LAMBDA value :
                               object_literal_loop(
                                        IF ~check(value.cur, "RBrace") /\ check(value.cur, "Comma")
                                        THEN advance(value.cur) ELSE value.cur,
                                        Append(properties,
                                               PropertyNode(key.node, value.node, None))))))

parse_object_literal_body(c) == object_literal_loop(c, <<>>)

parse_object_literal(c) ==
    and_then(production("parse_object_literal_body", advance(c)), LAMBDA node :
        and_then(expect(node.cur, "RBrace"), LAMBDA rb : Ok(rb.cur, node.node)))

(***************************************************************************)
(* Statements.                                                             *)
(***************************************************************************)
\* while !check(RBrace) && !is_at_end() { body.push(parse_statement()?) }
RECURSIVE statements_loop(_, _)
statements_loop(c, body) ==
    IF check(c, "RBrace") \/ is_at_end(c) THEN Ok(c, body)
    ELSE and_then(production("parse_statement", c), LAMBDA st :
             statements_loop(st.cur, Append(body, st.node)))

\* '{' statement* '}' as parse_if_statement, parse_for_statement and
\* parse_while_statement read it: expect(LBrace), the loop, expect(RBrace)
braced_statements(c) ==
    and_then(expect(c, "LBrace"), LAMBDA lb :
        and_then(statements_loop(lb.cur, <<>>), LAMBDA body :
                 and_then(expect(body.cur, "RBrace"), LAMBDA rb : Ok(rb.cur, body.node))))

parse_if_statement(c) ==
    and_then(expect(advance(c), "LParen"), LAMBDA lp :
        and_then(production("parse_expression", lp.cur), LAMBDA test :
                 and_then(expect(test.cur, "RParen"), LAMBDA rp :
                          and_then(braced_statements(rp.cur), LAMBDA consequent :
                                   IF check(consequent.cur, "Else")
                                   THEN and_then(braced_statements(advance(consequent.cur)), LAMBDA alt :
                                            Ok(alt.cur,
                                                    [type |-> "If", test |-> test.node,
                                                     consequent |-> consequent.node,
                                                     alternate |-> Some(alt.node),
                                                     loc |-> None]))
                                   ELSE Ok(consequent.cur,
                                           [type |-> "If", test |-> test.node,
                                            consequent |-> consequent.node,
                                            alternate |-> None, loc |-> None])))))

\* if !self.check(stop) { Some(Box::new(self.parse_expression()?)) } else { None }
optional_expression(c, stop) ==
    IF ~check(c, stop)
    THEN and_then(production("parse_expression", c), LAMBDA e : Ok(e.cur, Some(e.node)))
    ELSE Ok(c, None)

parse_for_statement(c) ==
    and_then(expect(advance(c), "LParen"), LAMBDA lp :
        and_then(optional_expression(lp.cur, "Colon"), LAMBDA init :
        and_then(expect(init.cur, "Colon"), LAMBDA c1 :
        and_then(optional_expression(c1.cur, "Colon"), LAMBDA test :
        and_then(expect(test.cur, "Colon"), LAMBDA c2 :
        and_then(optional_expression(c2.cur, "RParen"), LAMBDA update :
        and_then(expect(update.cur, "RParen"), LAMBDA rp :
        and_then(braced_statements(rp.cur), LAMBDA body :
        Ok(body.cur, [type |-> "For", init |-> init.node, test |-> test.node,
                           update |-> update.node, body |-> body.node, loc |-> None])))))))))

parse_while_statement(c) ==
    and_then(expect(advance(c), "LParen"), LAMBDA lp :
        and_then(production("parse_expression", lp.cur), LAMBDA test :
        and_then(expect(test.cur, "RParen"), LAMBDA rp :
        and_then(braced_statements(rp.cur), LAMBDA body :
        Ok(body.cur, [type |-> "While", test |-> test.node, body |-> body.node,
                           loc |-> None])))))

parse_return_statement(c) ==
    LET c1 == advance(c)
    IN  IF ~check(c1, "RBrace") /\ ~is_at_end(c1)
        THEN and_then(production("parse_expression", c1), LAMBDA e :
                 Ok(e.cur, [type |-> "Return", argument |-> Some(e.node), loc |-> None]))
        ELSE Ok(c1, [type |-> "Return", argument |-> None, loc |-> None])

parse_variable_declaration(c) ==
    and_then(expect_identifier(advance(c)), LAMBDA name :
        and_then(expect(name.cur, "Equals"), LAMBDA eq :
        and_then(production("parse_expression", eq.cur), LAMBDA value :
        Ok(value.cur, PropertyNode(name.node, value.node, None)))))

parse_expression_statement(c) == production("parse_expression", c)

parse_statement(c) ==
    CASE peek(c).token_type = "If" -> parse_if_statement(c)
      [] peek(c).token_type = "For" -> parse_for_statement(c)
      [] peek(c).token_type = "While" -> parse_while_statement(c)
      [] peek(c).token_type = "Return" -> parse_return_statement(c)
      [] peek(c).token_type \in {"Const", "Let", "Var"} -> parse_variable_declaration(c)
      [] OTHER -> parse_expression_statement(c)

(***************************************************************************)
(* Entity bodies.                                                          *)
(***************************************************************************)
parse_trait(c) ==
    LET start_loc == current_location(c)
        token == advanced(c)
        c1 == advance(c)
        name == trim_start_at(token.value)
    IN  IF check(c1, "LBrace")
        THEN and_then(production("parse_object_literal_body", advance(c1)), LAMBDA obj :
                 and_then(expect(obj.cur, "RBrace"), LAMBDA rb :
                          Ok(rb.cur, [type |-> "Trait", name |-> name,
                                           config |-> Some(obj.node),
                                           loc |-> Some(location_from(rb.cur, start_loc))])))
        ELSE Ok(c1, [type |-> "Trait", name |-> name, config |-> None,
                     loc |-> Some(location_from(c1, start_loc))])

parse_property(c) ==
    and_then(expect_identifier(c), LAMBDA key :
        and_then(expect(key.cur, "Colon"), LAMBDA colon :
        and_then(parse_value(colon.cur), LAMBDA value :
        Ok(value.cur, PropertyNode(key.node, value.node,
                                   Some(location_from(value.cur, current_location(c))))))))

parse_event_handler(c) ==
    and_then(expect_identifier(c), LAMBDA event :
        and_then(expect(event.cur, "Colon"), LAMBDA colon :
        and_then(braced_statements(colon.cur), LAMBDA body :
        Ok(body.cur, [type |-> "EventHandler", event |-> event.node,
                      body |-> body.node,
                      loc |-> Some(location_from(body.cur, current_location(c)))]))))

\* the loop of parse_properties_only
RECURSIVE properties_only_loop(_, _)
properties_only_loop(c, properties) ==
    IF check(c, "RBrace") \/ is_at_end(c) THEN Ok(c, properties)
    ELSE and_then(production("parse_property", c), LAMBDA p :
             properties_only_loop(p.cur, Append(properties, p.node)))

parse_properties_only(c) == properties_only_loop(c, <<>>)

\* what parse_composition, parse_world, parse_orb, parse_entity,
\* parse_generic_object, parse_template and parse_group do after the name:
\* expect(LBrace), parse_object_body, expect(RBrace), location_from(start_loc)
braced_object_body(c) ==
    and_then(expect(c, "LBrace"), LAMBDA lb :
        and_then(production("parse_object_body", lb.cur), LAMBDA b :
        and_then(expect(b.cur, "RBrace"), LAMBDA rb : Ok(rb.cur, b.node))))

parse_generic_object(c, object_type) ==
    and_then(expect_identifier(advance(c)), LAMBDA name :
        and_then(braced_object_body(name.cur), LAMBDA b :
        Ok(b.cur,
                [type |-> "Object", name |-> name.node, object_type |-> object_type,
                 traits |-> b.node.traits, properties |-> b.node.properties,
                 children |-> b.node.children,
                 loc |-> Some(location_from(b.cur, current_location(c)))])))

\* parse_object_body with the object-type test behind a test for ':': an
\* identifier that is followed by ':' is a property whatever its name is
RECURSIVE object_body_loop_colon_is_property(_, _, _, _)
object_body_loop_colon_is_property(c, traits, properties, children) ==
    IF check(c, "RBrace") \/ is_at_end(c)
    THEN Ok(c, [traits |-> traits, properties |-> properties, children |-> children])
    ELSE IF check(c, "Trait")
    THEN and_then(production("parse_trait", c), LAMBDA t :
             object_body_loop_colon_is_property(t.cur, Append(traits, t.node),
                                                properties, children))
    ELSE IF is_child_object(c)
    THEN and_then(production("parse_top_level", c), LAMBDA n :
             object_body_loop_colon_is_property(n.cur, traits, properties,
                                                Append(children, n.node)))
    ELSE IF check(c, "Identifier")
    THEN LET name == peek(c).value
         IN  IF starts_with(name, <<"o", "n">>) /\ peek_next_is(c, "Colon")
             THEN and_then(production("parse_event_handler", c), LAMBDA h :
                      object_body_loop_colon_is_property(h.cur, traits, properties,
                                                         Append(children, h.node)))
             ELSE IF is_object_type(name) /\ ~peek_next_is(c, "Colon")
             THEN and_then(parse_generic_object(c, name), LAMBDA o :
                      object_body_loop_colon_is_property(o.cur, traits, properties,
                                                         Append(children, o.node)))
             ELSE and_then(production("parse_property", c), LAMBDA p :
                      object_body_loop_colon_is_property(p.cur, traits,
                                                         Append(properties, p.node),
                                                         children))
    ELSE Err(c, <<"Expected trait, property, or nested object">>)

\* the loop of parse_object_body
RECURSIVE object_body_loop(_, _, _, _)
object_body_loop(c, traits, properties, children) ==
    IF check(c, "RBrace") \/ is_at_end(c)
    THEN Ok(c, [traits |-> traits, properties |-> properties, children |-> children])
    ELSE IF check(c, "Trait")
    THEN and_then(production("parse_trait", c), LAMBDA t :
             object_body_loop(t.cur, Append(traits, t.node), properties, children))
    ELSE IF is_child_object(c)
    THEN and_then(production("parse_top_level", c), LAMBDA n :
             object_body_loop(n.cur, traits, properties, Append(children, n.node)))
    ELSE IF check(c, "Identifier")
    THEN LET name == peek(c).value
         IN  IF starts_with(name, <<"o", "n">>) /\ peek_next_is(c, "Colon")
             THEN and_then(production("parse_event_handler", c), LAMBDA h :
                      object_body_loop(h.cur, traits, properties,
                                            Append(children, h.node)))
             ELSE IF is_object_type(name)
             THEN and_then(parse_generic_object(c, name), LAMBDA o :
                      object_body_loop(o.cur, traits, properties,
                                            Append(children, o.node)))
             ELSE and_then(production("parse_property", c), LAMBDA p :
                      object_body_loop(p.cur, traits, Append(properties, p.node),
                                            children))
    ELSE Err(c, <<"Expected trait, property, or nested object">>)

parse_object_body(c) == object_body_loop(c, <<>>, <<>>, <<>>)

EntityNode(type, name, b, loc) ==
    [type |-> type, name |-> name, traits |-> b.traits, properties |-> b.properties,
     children |-> b.children, loc |-> loc]

\* a named entity whose name production gave `name`; c is the cursor at the keyword
named_entity(c, type, name) ==
    IF ~name.ok THEN name
    ELSE and_then(braced_object_body(name.cur), LAMBDA b :
             Ok(b.cur, EntityNode(type, name.node, b.node,
                                       Some(location_from(b.cur, current_location(c))))))

parse_composition(c) ==
    named_entity(c, "Composition", expect_string_or_identifier(advance(c)))

parse_world(c) == named_entity(c, "World", expect_string_or_identifier(advance(c)))

parse_orb(c) == named_entity(c, "Orb", expect_identifier(advance(c)))

parse_entity(c) == named_entity(c, "Entity", expect_identifier(advance(c)))

parse_template(c) ==
    named_entity(c, "Template", expect_string_or_identifier(advance(c)))

parse_group(c) == named_entity(c, "Group", expect_identifier(advance(c)))

parse_environment(c) ==
    and_then(braced_object_body(advance(c)), LAMBDA b :
        Ok(b.cur, [type |-> "Environment", properties |-> b.node.properties,
                        children |-> b.node.children,
                        loc |-> Some(location_from(b.cur, current_location(c)))]))

parse_logic(c) ==
    and_then(braced_statements(advance(c)), LAMBDA body :
        Ok(body.cur, [type |-> "Logic", body |-> body.node,
                           loc |-> Some(location_from(body.cur, current_location(c)))]))

\* parse_npc, parse_quest, parse_ability, parse_dialogue, parse_achievement:
\* the name, expect(LBrace), parse_properties_only, expect(RBrace)
properties_entity(c, type) ==
    and_then(expect_string_or_identifier(advance(c)), LAMBDA name :
        and_then(expect(name.cur, "LBrace"), LAMBDA lb :
        and_then(production("parse_properties_only", lb.cur), LAMBDA properties :
        and_then(expect(properties.cur, "RBrace"), LAMBDA rb :
        Ok(rb.cur,
                IF type = "Dialogue"
                THEN [type |-> type, id |-> name.node, properties |-> properties.node,
                      loc |-> Some(location_from(rb.cur, current_location(c)))]
                ELSE [type |-> type, name |-> name.node, properties |-> properties.node,
                      loc |-> Some(location_from(rb.cur, current_location(c)))])))))

parse_npc(c) == properties_entity(c, "Npc")

parse_quest(c) == properties_entity(c, "Quest")

parse_ability(c) == properties_entity(c, "Ability")

parse_dialogue(c) == properties_entity(c, "Dialogue")

parse_achievement(c) == properties_entity(c, "Achievement")

\* if self.check(TokenType::Comma) { self.advance(); }
skip_comma(c) == IF check(c, "Comma") THEN advance(c) ELSE c

(***************************************************************************)
(* State machines and talent trees.                                        *)
(***************************************************************************)
\* the inner loop of parse_state_machine with each state put before the states
\* parsed so far
RECURSIVE states_loop_newest_first(_, _)
states_loop_newest_first(c, states) ==
    IF check(c, "RBrace") \/ is_at_end(c) THEN Ok(c, states)
    ELSE and_then(expect_string_or_identifier(c), LAMBDA state_name :
        and_then(expect(state_name.cur, "Colon"), LAMBDA colon :
        and_then(expect(colon.cur, "LBrace"), LAMBDA lb :
        and_then(production("parse_properties_only", lb.cur), LAMBDA state_props :
        and_then(expect(state_props.cur, "RBrace"), LAMBDA rb :
        states_loop_newest_first(skip_comma(rb.cur),
                         <<[name |-> state_name.node,
                            properties |-> state_props.node]>> \o states))))))

\* the inner loop of parse_state_machine, over the entries of `states: { }`
RECURSIVE states_loop(_, _)
states_loop(c, states) ==
    IF check(c, "RBrace") \/ is_at_end(c) THEN Ok(c, states)
    ELSE and_then(expect_string_or_identifier(c), LAMBDA state_name :
        and_then(expect(state_name.cur, "Colon"), LAMBDA colon :
        and_then(expect(colon.cur, "LBrace"), LAMBDA lb :
        and_then(production("parse_properties_only", lb.cur), LAMBDA state_props :
        and_then(expect(state_props.cur, "RBrace"), LAMBDA rb :
        states_loop(skip_comma(rb.cur),
                         Append(states, [name |-> state_name.node,
                                         properties |-> state_props.node])))))))

\* the outer loop of parse_state_machine
RECURSIVE state_machine_loop(_, _, _)
state_machine_loop(c, properties, states) ==
    IF check(c, "RBrace") \/ is_at_end(c)
    THEN Ok(c, [properties |-> properties, states |-> states])
    ELSE and_then(expect_identifier(c), LAMBDA key :
        and_then(expect(key.cur, "Colon"), LAMBDA colon :
        IF key.node = <<"s", "t", "a", "t", "e", "s">>
        THEN and_then(expect(colon.cur, "LBrace"), LAMBDA lb :
                 and_then(states_loop(lb.cur, states), LAMBDA st :
                 and_then(expect(st.cur, "RBrace"), LAMBDA rb :
                 state_machine_loop(rb.cur, properties, st.node))))
        ELSE and_then(production("parse_expression", colon.cur), LAMBDA value :
                 state_machine_loop(value.cur,
                          Append(properties, PropertyNode(key.node, value.node, None)),
                          states))))

parse_state_machine(c) ==
    and_then(expect_string_or_identifier(advance(c)), LAMBDA name :
        and_then(expect(name.cur, "LBrace"), LAMBDA lb :
        and_then(state_machine_loop(lb.cur, <<>>, <<>>), LAMBDA b :
        and_then(expect(b.cur, "RBrace"), LAMBDA rb :
        Ok(rb.cur, [type |-> "StateMachine", name |-> name.node,
                         properties |-> b.node.properties, states |-> b.node.states,
                         loc |-> Some(location_from(rb.cur, current_location(c)))])))))

digit_value(ch) ==
    CASE ch = "0" -> 0 [] ch = "1" -> 1 [] ch = "2" -> 2 [] ch = "3" -> 3 [] ch = "4" -> 4
      [] ch = "5" -> 5 [] ch = "6" -> 6 [] ch = "7" -> 7 [] ch = "8" -> 8 [] ch = "9" -> 9

I32Max == 2147483647

\* the digits of a text as a number, saturating at i32::MAX
RECURSIVE digits_value(_)
digits_value(ds) ==
    IF ds = <<>> THEN 0
    ELSE LET hi == digits_value(SubSeq(ds, 1, Len(ds) - 1))
             d == digit_value(ds[Len(ds)])
         IN  IF hi > (I32Max - d) \div 10 THEN I32Max ELSE hi * 10 + d

\* m * 10^e, saturating at i32::MAX
RECURSIVE scale_up(_, _)
scale_up(m, e) ==
    IF e = 0 \/ m = 0 THEN m
    ELSE IF m > I32Max \div 10 THEN I32Max
    ELSE scale_up(m * 10, e - 1)

\* m / 10^e, truncated
RECURSIVE scale_down(_, _)
scale_down(m, e) == IF e = 0 \/ m = 0 THEN m ELSE scale_down(m \div 10, e - 1)

\* the first index of text holding a character of S, Len(text) + 1 when none
first_of(text, S) ==
    IF \E k \in 1..Len(text) : text[k] \in S
    THEN CHOOSE k \in 1..Len(text) :
            text[k] \in S /\ \A m \in 1..(k - 1) : text[m] \notin S
    ELSE Len(text) + 1

\* `n.value as i32`: the value of the decimal text, truncated toward zero and
\* saturated to the range of i32 (binary rounding of the f64 is not modelled)
as_i32(text) ==
    LET neg == text # <<>> /\ text[1] = "-"
        body == IF neg THEN Tail(text) ELSE text
        e_at == first_of(body, {"e", "E"})
        mant == SubSeq(body, 1, e_at - 1)
        dot_at == first_of(mant, {"."})
        int_digits == SubSeq(mant, 1, dot_at - 1)
        frac_digits == SubSeq(mant, dot_at + 1, Len(mant))
        exp_text == SubSeq(body, e_at + 1, Len(body))
        exp_neg == exp_text # <<>> /\ exp_text[1] = "-"
        exp_digits == IF exp_text # <<>> /\ exp_text[1] \in {"+", "-"}
                      THEN Tail(exp_text) ELSE exp_text
        exp == IF exp_neg THEN 0 - digits_value(exp_digits) ELSE digits_value(exp_digits)
        m == digits_value(int_digits \o frac_digits)
        e == exp - Len(frac_digits)
        magnitude == IF e >= 0 THEN scale_up(m, e) ELSE scale_down(m, 0 - e)
    IN  IF neg THEN 0 - magnitude ELSE magnitude

\* the loop over the entries of one talent node
RECURSIVE talent_node_loop(_, _, _)
talent_node_loop(c, node_name, node_props) ==
    IF check(c, "RBrace") \/ is_at_end(c)
    THEN Ok(c, [name |-> node_name, properties |-> node_props])
    ELSE IF check(c, "Comma") THEN talent_node_loop(advance(c), node_name, node_props)
    ELSE and_then(expect_identifier(c), LAMBDA node_key :
        and_then(expect(node_key.cur, "Colon"), LAMBDA colon :
        and_then(production("parse_expression", colon.cur), LAMBDA node_value :
        talent_node_loop(
                 node_value.cur,
                 IF /\ node_key.node \in {<<"n", "a", "m", "e">>, <<"i", "d">>}
                    /\ node_value.node.type = "String"
                 THEN node_value.node.value ELSE node_name,
                 Append(node_props, PropertyNode(node_key.node, node_value.node, None))))))

\* the loop over the objects of `nodes: [ ]`
RECURSIVE talent_nodes_loop(_, _)
talent_nodes_loop(c, nodes) ==
    IF check(c, "RBracket") \/ is_at_end(c) THEN Ok(c, nodes)
    ELSE and_then(expect(c, "LBrace"), LAMBDA lb :
        and_then(talent_node_loop(lb.cur, <<>>, <<>>), LAMBDA n :
        and_then(expect(n.cur, "RBrace"), LAMBDA rb :
        talent_nodes_loop(skip_comma(rb.cur), Append(nodes, n.node)))))

\* the loop over the entries of one tier
RECURSIVE talent_tier_loop(_, _, _)
talent_tier_loop(c, level, nodes) ==
    IF check(c, "RBrace") \/ is_at_end(c) THEN Ok(c, [level |-> level, nodes |-> nodes])
    ELSE IF check(c, "Comma") THEN talent_tier_loop(advance(c), level, nodes)
    ELSE and_then(expect_identifier(c), LAMBDA tier_key :
        and_then(expect(tier_key.cur, "Colon"), LAMBDA colon :
        IF tier_key.node \in {<<"t", "i", "e", "r">>, <<"l", "e", "v", "e", "l">>}
        THEN and_then(production("parse_expression", colon.cur), LAMBDA n :
                 talent_tier_loop(n.cur,
                          IF n.node.type = "Number" THEN as_i32(n.node.value) ELSE level,
                          nodes))
        ELSE IF tier_key.node = <<"n", "o", "d", "e", "s">>
        THEN and_then(expect(colon.cur, "LBracket"), LAMBDA lb :
                 and_then(talent_nodes_loop(lb.cur, nodes), LAMBDA ns :
                 and_then(expect(ns.cur, "RBracket"), LAMBDA rb :
                 talent_tier_loop(rb.cur, level, ns.node))))
        ELSE and_then(production("parse_expression", colon.cur), LAMBDA skipped :
                 talent_tier_loop(skipped.cur, level, nodes))))

\* the loop over the objects of `rows: [ ]` / `tiers: [ ]`
RECURSIVE talent_tiers_loop(_, _)
talent_tiers_loop(c, tiers) ==
    IF check(c, "RBracket") \/ is_at_end(c) THEN Ok(c, tiers)
    ELSE and_then(expect(c, "LBrace"), LAMBDA lb :
        and_then(talent_tier_loop(lb.cur, 1, <<>>), LAMBDA t :
        and_then(expect(t.cur, "RBrace"), LAMBDA rb :
        talent_tiers_loop(skip_comma(rb.cur), Append(tiers, t.node)))))

\* the outer loop of parse_talent_tree
RECURSIVE talent_tree_loop(_, _, _)
talent_tree_loop(c, properties, tiers) ==
    IF check(c, "RBrace") \/ is_at_end(c)
    THEN Ok(c, [properties |-> properties, tiers |-> tiers])
    ELSE and_then(expect_identifier(c), LAMBDA key :
        and_then(expect(key.cur, "Colon"), LAMBDA colon :
        IF key.node \in {<<"r", "o", "w", "s">>, <<"t", "i", "e", "r", "s">>}
        THEN and_then(expect(colon.cur, "LBracket"), LAMBDA lb :
                 and_then(talent_tiers_loop(lb.cur, tiers), LAMBDA ts :
                 and_then(expect(ts.cur, "RBracket"), LAMBDA rb :
                 talent_tree_loop(rb.cur, properties, ts.node))))
        ELSE and_then(production("parse_expression", colon.cur), LAMBDA value :
                 talent_tree_loop(value.cur,
                          Append(properties, PropertyNode(key.node, value.node, None)),
                          tiers))))

parse_talent_tree(c) ==
    and_then(expect_string_or_identifier(advance(c)), LAMBDA name :
        and_then(expect(name.cur, "LBrace"), LAMBDA lb :
        and_then(talent_tree_loop(lb.cur, <<>>, <<>>), LAMBDA b :
        and_then(expect(b.cur, "RBrace"), LAMBDA rb :
        Ok(rb.cur, [type |-> "TalentTree", name |-> name.node,
                         properties |-> b.node.properties, tiers |-> b.node.tiers,
                         loc |-> Some(location_from(rb.cur, current_location(c)))])))))

(***************************************************************************)
(* Declarations and the top level.                                         *)
(***************************************************************************)
\* the loop over the specifiers of parse_import
RECURSIVE import_specifiers_loop(_, _)
import_specifiers_loop(c, specifiers) ==
    IF check(c, "RBrace") \/ is_at_end(c) THEN Ok(c, specifiers)
    ELSE and_then(expect_identifier(c), LAMBDA imported :
        and_then(IF check(imported.cur, "As")
                          THEN expect_identifier(advance(imported.cur))
                          ELSE Ok(imported.cur, imported.node), LAMBDA local :
        IF ~check(local.cur, "RBrace")
        THEN and_then(expect(local.cur, "Comma"), LAMBDA comma :
                 import_specifiers_loop(comma.cur,
                          Append(specifiers, [imported |-> imported.node,
                                              local |-> local.node])))
        ELSE import_specifiers_loop(local.cur,
                 Append(specifiers, [imported |-> imported.node, local |-> local.node]))))

\* the specifier list of parse_import: `{ a, b as c }`, or none
import_specifiers(c) ==
    IF check(c, "LBrace")
    THEN and_then(import_specifiers_loop(advance(c), <<>>), LAMBDA sp :
             and_then(expect(sp.cur, "RBrace"), LAMBDA rb : Ok(rb.cur, sp.node)))
    ELSE Ok(c, <<>>)

parse_import(c) ==
    and_then(import_specifiers(advance(c)), LAMBDA specifiers :
        and_then(expect(specifiers.cur, "From"), LAMBDA from :
        and_then(expect_string(from.cur), LAMBDA src :
        Ok(src.cur, [type |-> "Import", specifiers |-> specifiers.node,
                     source |-> src.node,
                     loc |-> Some(location_from(src.cur, current_location(c)))]))))

parse_export(c) ==
    and_then(production("parse_top_level", advance(c)), LAMBDA declaration :
        Ok(declaration.cur,
                [type |-> "Export", declaration |-> declaration.node,
                 loc |-> Some(location_from(declaration.cur, current_location(c)))]))

\* the parameter loop of parse_function
RECURSIVE params_loop(_, _)
params_loop(c, params) ==
    IF check(c, "RParen") \/ is_at_end(c) THEN Ok(c, params)
    ELSE and_then(expect_identifier(c), LAMBDA p :
        IF ~check(p.cur, "RParen")
        THEN and_then(expect(p.cur, "Comma"), LAMBDA comma :
                 params_loop(comma.cur, Append(params, p.node)))
        ELSE params_loop(p.cur, Append(params, p.node)))

parse_function(c) ==
    and_then(expect_identifier(advance(c)), LAMBDA name :
        and_then(expect(name.cur, "LParen"), LAMBDA lp :
        and_then(params_loop(lp.cur, <<>>), LAMBDA params :
        and_then(expect(params.cur, "RParen"), LAMBDA rp :
        and_then(braced_statements(rp.cur), LAMBDA body :
        Ok(body.cur, [type |-> "Function", name |-> name.node,
                           params |-> params.node, body |-> body.node,
                           loc |-> Some(location_from(body.cur, current_location(c)))]))))))

parse_top_level(c) ==
    IF check(c, "Trait") THEN production("parse_trait", c)
    ELSE CASE peek(c).token_type = "Composition" -> parse_composition(c)
           [] peek(c).token_type = "World" -> parse_world(c)
           [] peek(c).token_type = "Orb" -> parse_orb(c)
           [] peek(c).token_type = "Entity" -> parse_entity(c)
           [] peek(c).token_type = "Object" ->
                parse_generic_object(c, <<"o", "b", "j", "e", "c", "t">>)
           [] peek(c).token_type = "Template" -> parse_template(c)
           [] peek(c).token_type = "Group" -> parse_group(c)
           [] peek(c).token_type = "Environment" -> parse_environment(c)
           [] peek(c).token_type = "Logic" -> parse_logic(c)
           [] peek(c).token_type = "Npc" -> parse_npc(c)
           [] peek(c).token_type = "Quest" -> parse_quest(c)
           [] peek(c).token_type = "Ability" -> parse_ability(c)
           [] peek(c).token_type = "Dialogue" -> parse_dialogue(c)
           [] peek(c).token_type = "StateMachine" -> parse_state_machine(c)
           [] peek(c).token_type = "Achievement" -> parse_achievement(c)
           [] peek(c).token_type = "TalentTree" -> parse_talent_tree(c)
           [] peek(c).token_type = "Import" -> parse_import(c)
           [] peek(c).token_type = "Export" -> parse_export(c)
           [] peek(c).token_type = "Function" -> parse_function(c)
           [] peek(c).token_type = "Identifier" ->
                IF is_object_type(peek(c).value)
                THEN parse_generic_object(c, peek(c).value)
                ELSE Err(c, <<"Unexpected identifier: ">> \o peek(c).value)
           [] OTHER -> Err(c, <<"Unexpected token: ", peek(c).token_type>>)

\* self.parse_x(), at cursor c
production(name, c) ==
    CASE name = "parse_top_level" -> parse_top_level(c)
      [] name = "parse_object_body" -> parse_object_body(c)
      [] name = "parse_trait" -> parse_trait(c)
      [] name = "parse_property" -> parse_property(c)
      [] name = "parse_event_handler" -> parse_event_handler(c)
      [] name = "parse_properties_only" -> parse_properties_only(c)
      [] name = "parse_expression" -> parse_expression(c)
      [] name = "parse_statement" -> parse_statement(c)
      [] name = "parse_object_literal_body" -> parse_object_literal_body(c)
      [] name = "parse_unary_expression" -> parse_unary_expression(c)
      [] name = "parse_array" -> parse_array(c)
      [] name = "parse_object_literal" -> parse_object_literal(c)

parse_result_ok_despite_errors(errs, body) ==
    [is_ok |-> TRUE, ast |-> Some([type |-> "Program", body |-> body,
                                   directives |-> <<>>]),
     errors |-> <<>>]

\* the end of Parser::parse: Ok(ast) when no error was recorded, else Err(errors)
parse_result(errs, body) ==
    IF errs = <<>>
    THEN [is_ok |-> TRUE, ast |-> Some([type |-> "Program", body |-> body,
                                         directives |-> <<>>]),
          errors |-> <<>>]
    ELSE [is_ok |-> FALSE, ast |-> None, errors |-> errs]

(***************************************************************************)
(* lib.rs: what each entry point makes of the Result of Parser::parse.     *)
(* serde_json's text is kept as the value it encodes: an object is a       *)
(* record, an array a sequence.                                            *)
(***************************************************************************)
\* errors.iter().map(|e| json!({message, line, column})).collect()
error_json(errs) ==
    [k \in 1..Len(errs) |->
        [message |-> errs[k].message, line |-> errs[k].line, column |-> errs[k].column]]

lib_parse(r) ==
    IF r.is_ok THEN [kind |-> "ast", ast |-> r.ast[1], errors |-> <<>>]
    ELSE [kind |-> "errors", ast |-> None, errors |-> error_json(r.errors)]

validate(r) == r.is_ok

validate_detailed(r) ==
    IF r.is_ok THEN [valid |-> TRUE, errors |-> <<>>]
    ELSE [valid |-> FALSE, errors |-> error_json(r.errors)]

(***************************************************************************)
(* types.rs: a HoloType is a record with the variant's name as `tag`;      *)
(* Array carries `inner`, Object its `props` (pairs of a name and a type), *)
(* Function its `params` and `ret`.                                        *)
(***************************************************************************)
\* the variants of HoloType that carry nothing
PlainTypes ==
    {"String", "Number", "Boolean", "Null", "Vec3", "Vec4", "Color", "Quaternion",
     "Orb", "Entity", "Composition", "World", "Template", "Group", "Any", "Void",
     "Unknown"}

\* mutant of is_assignable_to: no arm for two arrays, so arrays are invariant
is_assignable_to_invariant_arrays(self, other) ==
    IF self = other THEN TRUE
    ELSE IF self.tag = "Any" \/ other.tag = "Any" THEN TRUE
    ELSE IF self.tag = "Null" /\ other.tag \in {"Object", "Array", "Orb", "Entity"}
    THEN TRUE
    ELSE IF self.tag = "Array" /\ other.tag = "Array" THEN FALSE
    ELSE IF self.tag = "Vec3" /\ other.tag = "Array"
    THEN other.inner = [tag |-> "Number"]
    ELSE IF self.tag = "Array" /\ other.tag = "Vec3"
    THEN self.inner = [tag |-> "Number"]
    ELSE IF self.tag \in {"String", "Vec4"} /\ other.tag = "Color" THEN TRUE
    ELSE FALSE

\* mutant of is_assignable_to: the arm for Color works in both directions
RECURSIVE is_assignable_to_color_both_ways(_, _)
is_assignable_to_color_both_ways(self, other) ==
    IF self = other THEN TRUE
    ELSE IF self.tag = "Any" \/ other.tag = "Any" THEN TRUE
    ELSE IF self.tag = "Null" /\ other.tag \in {"Object", "Array", "Orb", "Entity"}
    THEN TRUE
    ELSE IF self.tag = "Array" /\ other.tag = "Array"
    THEN is_assignable_to_color_both_ways(self.inner, other.inner)
    ELSE IF self.tag = "Vec3" /\ other.tag = "Array"
    THEN other.inner = [tag |-> "Number"]
    ELSE IF self.tag = "Array" /\ other.tag = "Vec3"
    THEN self.inner = [tag |-> "Number"]
    ELSE IF self.tag \in {"String", "Vec4"} /\ other.tag = "Color" THEN TRUE
    ELSE IF self.tag = "Color" /\ other.tag \in {"String", "Vec4"} THEN TRUE
    ELSE FALSE

\* the arms of the match, in their order
RECURSIVE is_assignable_to(_, _)
is_assignable_to(self, other) ==
    IF self = other THEN TRUE
    ELSE IF self.tag = "Any" \/ other.tag = "Any" THEN TRUE
    ELSE IF self.tag = "Null" /\ other.tag \in {"Object", "Array", "Orb", "Entity"}
    THEN TRUE
    ELSE IF self.tag = "Array" /\ other.tag = "Array"
    THEN is_assignable_to(self.inner, other.inner)
    ELSE IF self.tag = "Vec3" /\ other.tag = "Array"
    THEN other.inner = [tag |-> "Number"]
    ELSE IF self.tag = "Array" /\ other.tag = "Vec3"
    THEN self.inner = [tag |-> "Number"]
    ELSE IF self.tag \in {"String", "Vec4"} /\ other.tag = "Color" THEN TRUE
    ELSE FALSE

\* no call of is_assignable_to
NoCall == [self |-> [tag |-> "Unknown"], other |-> [tag |-> "Unknown"], answer |-> None]

(***************************************************************************)
(* holoscript-component, traits.rs.  A text that the code searches or      *)
(* compares (a trait name, a description) is a sequence of characters; a   *)
(* text that it only copies (category, description of a trait, default     *)
(* properties) is a string.                                                *)
(***************************************************************************)
ALL_TRAITS ==
    <<<<<<"g", "r", "a", "b", "b", "a", "b", "l", "e">>, "interaction",
        "Object can be grabbed and held by the user",
        <<"grab_points", "two_handed">>>>,
      <<<<"t", "h", "r", "o", "w", "a", "b", "l", "e">>, "interaction",
        "Object can be thrown after being grabbed",
        <<"throw_force", "spin">>>>,
      <<<<"h", "o", "l", "d", "a", "b", "l", "e">>, "interaction",
        "Object can be held indefinitely",
        <<"hold_position", "hold_rotation">>>>,
      <<<<"c", "l", "i", "c", "k", "a", "b", "l", "e">>, "interaction",
        "Object responds to click/select input",
        <<"click_sound", "highlight_color">>>>,
      <<<<"h", "o", "v", "e", "r", "a", "b", "l", "e">>, "interaction",
        "Object responds to hover/point input",
        <<"hover_color", "hover_scale">>>>,
      <<<<"d", "r", "a", "g", "g", "a", "b", "l", "e">>, "interaction",
        "Object can be dragged along surfaces",
        <<"drag_constraint", "snap_to_grid">>>>,
      <<<<"p", "o", "i", "n", "t", "a", "b", "l", "e">>, "interaction",
        "Object can be pointed at with a laser/ray",
        <<"point_distance", "highlight">>>>,
      <<<<"s", "c", "a", "l", "a", "b", "l", "e">>, "interaction",
        "Object can be resized by the user",
        <<"min_scale", "max_scale", "uniform">>>>,
      <<<<"c", "o", "l", "l", "i", "d", "a", "b", "l", "e">>, "physics",
        "Object participates in collision detection",
        <<"collision_layer", "collision_mask">>>>,
      <<<<"p", "h", "y", "s", "i", "c", "s">>, "physics",
        "Object has full physics simulation",
        <<"mass", "restitution", "friction">>>>,
      <<<<"r", "i", "g", "i", "d">>, "physics",
        "Object is a rigid body",
        <<"mass", "angular_damping", "linear_damping">>>>,
      <<<<"k", "i", "n", "e", "m", "a", "t", "i", "c">>, "physics",
        "Object moves via script, not physics",
        <<"interpolation">>>>,
      <<<<"t", "r", "i", "g", "g", "e", "r">>, "physics",
        "Object acts as trigger volume",
        <<"trigger_shape", "trigger_size">>>>,
      <<<<"g", "r", "a", "v", "i", "t", "y">>, "physics",
        "Object is affected by gravity",
        <<"gravity_scale">>>>,
      <<<<"g", "l", "o", "w", "i", "n", "g">>, "visual",
        "Object emits light/glow effect",
        <<"glow_color", "glow_intensity">>>>,
      <<<<"e", "m", "i", "s", "s", "i", "v", "e">>, "visual",
        "Object has emissive material",
        <<"emission_color", "emission_intensity">>>>,
      <<<<"t", "r", "a", "n", "s", "p", "a", "r", "e", "n", "t">>, "visual",
        "Object has transparency",
        <<"opacity", "alpha_cutoff">>>>,
      <<<<"r", "e", "f", "l", "e", "c", "t", "i", "v", "e">>, "visual",
        "Object has reflective surface",
        <<"reflectivity", "roughness">>>>,
      <<<<"a", "n", "i", "m", "a", "t", "e", "d">>, "visual",
        "Object has animations",
        <<"animation_clip", "autoplay", "loop">>>>,
      <<<<"b", "i", "l", "l", "b", "o", "a", "r", "d">>, "visual",
        "Object always faces the camera",
        <<"axis_lock">>>>,
      <<<<"n", "e", "t", "w", "o", "r", "k", "e", "d">>, "networking",
        "Object state is synced across network",
        <<"sync_rate", "interpolation">>>>,
      <<<<"s", "y", "n", "c", "e", "d">>, "networking",
        "Object properties are automatically synced",
        <<"sync_properties">>>>,
      <<<<"p", "e", "r", "s", "i", "s", "t", "e", "n", "t">>, "networking",
        "Object state persists across sessions",
        <<"storage_key">>>>,
      <<<<"o", "w", "n", "e", "d">>, "networking",
        "Object has network ownership",
        <<"owner_id", "transfer_allowed">>>>,
      <<<<"h", "o", "s", "t", "_", "o", "n", "l", "y">>, "networking",
        "Object is only visible/active on host",
        <<>>>>,
      <<<<"s", "t", "a", "c", "k", "a", "b", "l", "e">>, "behavior",
        "Objects can be stacked on each other",
        <<"stack_height", "stack_offset">>>>,
      <<<<"a", "t", "t", "a", "c", "h", "a", "b", "l", "e">>, "behavior",
        "Object can attach to other objects",
        <<"attach_points", "snap_distance">>>>,
      <<<<"e", "q", "u", "i", "p", "p", "a", "b", "l", "e">>, "behavior",
        "Object can be equipped by player",
        <<"equip_slot", "equip_position">>>>,
      <<<<"c", "o", "n", "s", "u", "m", "a", "b", "l", "e">>, "behavior",
        "Object can be consumed/used up",
        <<"consume_effect", "uses">>>>,
      <<<<"d", "e", "s", "t", "r", "u", "c", "t", "i", "b", "l", "e">>, "behavior",
        "Object can be destroyed",
        <<"health", "debris", "destroy_effect">>>>,
      <<<<"a", "n", "c", "h", "o", "r">>, "spatial",
        "Object is anchored to a world position",
        <<"anchor_type", "precision">>>>,
      <<<<"t", "r", "a", "c", "k", "e", "d">>, "spatial",
        "Object tracks a real-world entity",
        <<"tracking_source">>>>,
      <<<<"w", "o", "r", "l", "d", "_", "l", "o", "c", "k", "e", "d">>, "spatial",
        "Object stays fixed in world space",
        <<"lock_position", "lock_rotation">>>>,
      <<<<"h", "a", "n", "d", "_", "t", "r", "a", "c", "k", "e", "d">>, "spatial",
        "Object follows hand tracking",
        <<"hand", "joint">>>>,
      <<<<"e", "y", "e", "_", "t", "r", "a", "c", "k", "e", "d">>, "spatial",
        "Object follows eye gaze",
        <<"gaze_offset", "smooth_factor">>>>,
      <<<<"s", "p", "a", "t", "i", "a", "l", "_", "a", "u", "d", "i", "o">>, "audio",
        "Object emits 3D spatial audio",
        <<"audio_source", "rolloff", "max_distance">>>>,
      <<<<"a", "m", "b", "i", "e", "n", "t">>, "audio",
        "Object emits ambient background audio",
        <<"ambient_clip", "volume">>>>,
      <<<<"v", "o", "i", "c", "e", "_", "a", "c", "t", "i", "v", "a", "t", "e", "d">>,
        "audio",
        "Object responds to voice commands",
        <<"commands", "sensitivity">>>>,
      <<<<"s", "t", "a", "t", "e">>, "state",
        "Object has internal state management",
        <<"initial_state">>>>,
      <<<<"r", "e", "a", "c", "t", "i", "v", "e">>, "state",
        "Object reacts to state changes",
        <<"watch_properties">>>>,
      <<<<"o", "b", "s", "e", "r", "v", "a", "b", "l", "e">>, "state",
        "Object state can be observed by others",
        <<"observable_properties">>>>,
      <<<<"c", "o", "m", "p", "u", "t", "e", "d">>, "state",
        "Object has computed/derived properties",
        <<"computed_properties">>>>,
      <<<<"u", "i", "_", "p", "a", "n", "e", "l">>, "ui",
        "Object is a UI panel",
        <<"width", "height", "curved">>>>,
      <<<<"u", "i", "_", "b", "u", "t", "t", "o", "n">>, "ui",
        "Object is a UI button",
        <<"label", "click_action">>>>,
      <<<<"u", "i", "_", "t", "e", "x", "t">>, "ui",
        "Object displays text",
        <<"text", "font_size", "color">>>>,
      <<<<"u", "i", "_", "s", "l", "i", "d", "e", "r">>, "ui",
        "Object is a UI slider",
        <<"min", "max", "value">>>>,
      <<<<"i", "n", "t", "e", "r", "a", "c", "t", "i", "v", "e">>, "interaction",
        "Alias for grabbable + clickable",
        <<>>>>,
      <<<<"s", "o", "l", "i", "d">>, "physics",
        "Alias for collidable + rigid",
        <<>>>>,
      <<<<"l", "i", "t">>, "visual",
        "Alias for glowing + emissive",
        <<>>>>>>

\* mutant of get_trait: the first trait whose name starts with `name`
get_trait_by_prefix(name) ==
    IF \E k \in 1..Len(ALL_TRAITS) :
          /\ Len(ALL_TRAITS[k][1]) >= Len(name)
          /\ SubSeq(ALL_TRAITS[k][1], 1, Len(name)) = name
    THEN LET k == CHOOSE k \in 1..Len(ALL_TRAITS) :
                     /\ Len(ALL_TRAITS[k][1]) >= Len(name)
                     /\ SubSeq(ALL_TRAITS[k][1], 1, Len(name)) = name
                     /\ \A j \in 1..(k - 1) :
                           ~(/\ Len(ALL_TRAITS[j][1]) >= Len(name)
                             /\ SubSeq(ALL_TRAITS[j][1], 1, Len(name)) = name)
         IN  Some([name |-> ALL_TRAITS[k][1], category |-> ALL_TRAITS[k][2],
                   description |-> ALL_TRAITS[k][3],
                   default_properties |-> ALL_TRAITS[k][4]])
    ELSE None

\* ALL_TRAITS.iter().find(|t| t.0 == name).map(|t| TraitDef { ... })
get_trait(name) ==
    IF \E k \in 1..Len(ALL_TRAITS) : ALL_TRAITS[k][1] = name
    THEN LET k == CHOOSE k \in 1..Len(ALL_TRAITS) :
                     /\ ALL_TRAITS[k][1] = name
                     /\ \A j \in 1..(k - 1) : ALL_TRAITS[j][1] # name
         IN  Some([name |-> ALL_TRAITS[k][1], category |-> ALL_TRAITS[k][2],
                   description |-> ALL_TRAITS[k][3],
                   default_properties |-> ALL_TRAITS[k][4]])
    ELSE None

\* str::to_lowercase, for texts of ASCII characters
to_lowercase(s) ==
    LET upper == <<"A", "B", "C", "D", "E", "F", "G", "H", "I", "J", "K", "L", "M",
                   "N", "O", "P", "Q", "R", "S", "T", "U", "V", "W", "X", "Y", "Z">>
        lower == <<"a", "b", "c", "d", "e", "f", "g", "h", "i", "j", "k", "l", "m",
                   "n", "o", "p", "q", "r", "s", "t", "u", "v", "w", "x", "y", "z">>
    IN  [k \in 1..Len(s) |->
            IF \E j \in 1..26 : upper[j] = s[k]
            THEN lower[CHOOSE j \in 1..26 : upper[j] = s[k]]
            ELSE s[k]]

\* mutant of contains: the pattern is looked for at the start only
contains_at_start(s, pat) == Len(pat) <= Len(s) /\ SubSeq(s, 1, Len(pat)) = pat

\* str::contains: pat occurs in s, searched from the left
RECURSIVE contains(_, _)
contains(s, pat) ==
    IF Len(pat) > Len(s) THEN FALSE
    ELSE IF SubSeq(s, 1, Len(pat)) = pat THEN TRUE
    ELSE contains(Tail(s), pat)

suggest_traits_for_description(description) ==
    LET lower == to_lowercase(description)
        \* if condition { suggested.push(get_trait(name)) }, before the unwrap
        push(condition, name) == IF condition THEN <<get_trait(name)>> ELSE <<>>
        suggested ==
               push(   contains(lower, <<"g", "r", "a", "b">>)
                     \/ contains(lower, <<"p", "i", "c", "k", " ", "u", "p">>)
                     \/ contains(lower, <<"h", "o", "l", "d">>),
                 <<"g", "r", "a", "b", "b", "a", "b", "l", "e">>)
            \o push(   contains(lower, <<"t", "h", "r", "o", "w">>)
                     \/ contains(lower, <<"t", "o", "s", "s">>),
                 <<"t", "h", "r", "o", "w", "a", "b", "l", "e">>)
            \o push(   contains(lower, <<"c", "l", "i", "c", "k">>)
                     \/ contains(lower, <<"p", "r", "e", "s", "s">>)
                     \/ contains(lower, <<"b", "u", "t", "t", "o", "n">>),
                 <<"c", "l", "i", "c", "k", "a", "b", "l", "e">>)
            \o push(   contains(lower, <<"d", "r", "a", "g">>),
                 <<"d", "r", "a", "g", "g", "a", "b", "l", "e">>)
            \o push(   contains(lower, <<"p", "o", "i", "n", "t">>)
                     \/ contains(lower, <<"l", "a", "s", "e", "r">>),
                 <<"p", "o", "i", "n", "t", "a", "b", "l", "e">>)
            \o push(   contains(lower, <<"r", "e", "s", "i", "z", "e">>)
                     \/ contains(lower, <<"s", "c", "a", "l", "e">>),
                 <<"s", "c", "a", "l", "a", "b", "l", "e">>)
            \o push(   contains(lower, <<"c", "o", "l", "l", "i", "d", "e">>)
                     \/ contains(lower, <<"c", "o", "l", "l", "i", "s", "i", "o", "n">>)
                     \/ contains(lower, <<"s", "o", "l", "i", "d">>),
                 <<"c", "o", "l", "l", "i", "d", "a", "b", "l", "e">>)
            \o push(   contains(lower, <<"p", "h", "y", "s", "i", "c">>)
                     \/ contains(lower, <<"b", "o", "u", "n", "c", "e">>)
                     \/ contains(lower, <<"f", "a", "l", "l">>),
                 <<"p", "h", "y", "s", "i", "c", "s">>)
            \o push(   contains(lower, <<"r", "i", "g", "i", "d">>),
                 <<"r", "i", "g", "i", "d">>)
            \o push(   contains(lower, <<"g", "r", "a", "v", "i", "t", "y">>),
                 <<"g", "r", "a", "v", "i", "t", "y">>)
            \o push(   contains(lower, <<"t", "r", "i", "g", "g", "e", "r">>)
                     \/ contains(lower, <<"d", "e", "t", "e", "c", "t">>),
                 <<"t", "r", "i", "g", "g", "e", "r">>)
            \o push(   contains(lower, <<"g", "l", "o", "w">>)
                     \/ contains(lower, <<"l", "i", "g", "h", "t", " ", "u", "p">>)
                     \/ contains(lower, <<"s", "h", "i", "n", "e">>),
                 <<"g", "l", "o", "w", "i", "n", "g">>)
            \o push(   contains(lower, <<"t", "r", "a", "n", "s", "p", "a", "r">>)
                     \/ contains(lower, <<"s", "e", "e", " ", "t", "h", "r", "o", "u", "g", "h">>)
                     \/ contains(lower, <<"g", "l", "a", "s", "s">>),
                 <<"t", "r", "a", "n", "s", "p", "a", "r", "e", "n", "t">>)
            \o push(   contains(lower, <<"r", "e", "f", "l", "e", "c", "t">>)
                     \/ contains(lower, <<"m", "i", "r", "r", "o", "r">>),
                 <<"r", "e", "f", "l", "e", "c", "t", "i", "v", "e">>)
            \o push(   contains(lower, <<"a", "n", "i", "m", "a", "t">>),
                 <<"a", "n", "i", "m", "a", "t", "e", "d">>)
            \o push(   contains(lower, <<"b", "i", "l", "l", "b", "o", "a", "r", "d">>)
                     \/ contains(lower, <<"f", "a", "c", "e", " ", "c", "a", "m", "e", "r", "a">>),
                 <<"b", "i", "l", "l", "b", "o", "a", "r", "d">>)
            \o push(   contains(lower, <<"n", "e", "t", "w", "o", "r", "k">>)
                     \/ contains(lower, <<"m", "u", "l", "t", "i", "p", "l", "a", "y">>)
                     \/ contains(lower, <<"s", "y", "n", "c">>),
                 <<"n", "e", "t", "w", "o", "r", "k", "e", "d">>)
            \o push(   contains(lower, <<"p", "e", "r", "s", "i", "s", "t">>)
                     \/ contains(lower, <<"s", "a", "v", "e">>),
                 <<"p", "e", "r", "s", "i", "s", "t", "e", "n", "t">>)
            \o push(   contains(lower, <<"h", "o", "s", "t">>)
                     \/ contains(lower, <<"s", "e", "r", "v", "e", "r">>),
                 <<"h", "o", "s", "t", "_", "o", "n", "l", "y">>)
            \o push(   contains(lower, <<"s", "t", "a", "c", "k">>)
                     \/ contains(lower, <<"p", "i", "l", "e">>),
                 <<"s", "t", "a", "c", "k", "a", "b", "l", "e">>)
            \o push(   contains(lower, <<"a", "t", "t", "a", "c", "h">>)
                     \/ contains(lower, <<"c", "o", "n", "n", "e", "c", "t">>),
                 <<"a", "t", "t", "a", "c", "h", "a", "b", "l", "e">>)
            \o push(   contains(lower, <<"e", "q", "u", "i", "p">>)
                     \/ contains(lower, <<"w", "e", "a", "r">>)
                     \/ contains(lower, <<"t", "o", "o", "l">>),
                 <<"e", "q", "u", "i", "p", "p", "a", "b", "l", "e">>)
            \o push(   contains(lower, <<"c", "o", "n", "s", "u", "m", "e">>)
                     \/ contains(lower, <<"e", "a", "t">>)
                     \/ contains(lower, <<"d", "r", "i", "n", "k">>),
                 <<"c", "o", "n", "s", "u", "m", "a", "b", "l", "e">>)
            \o push(   contains(lower, <<"d", "e", "s", "t", "r", "o", "y">>)
                     \/ contains(lower, <<"b", "r", "e", "a", "k">>),
                 <<"d", "e", "s", "t", "r", "u", "c", "t", "i", "b", "l", "e">>)
            \o push(   contains(lower, <<"a", "n", "c", "h", "o", "r">>)
                     \/ contains(lower, <<"f", "i", "x", "e", "d", " ", "p", "o", "s", "i", "t", "i", "o", "n">>),
                 <<"a", "n", "c", "h", "o", "r">>)
            \o push(   contains(lower, <<"t", "r", "a", "c", "k">>)
                     \/ contains(lower, <<"f", "o", "l", "l", "o", "w">>),
                 <<"t", "r", "a", "c", "k", "e", "d">>)
            \o push(   contains(lower, <<"h", "a", "n", "d">>)
                     /\ contains(lower, <<"t", "r", "a", "c", "k">>),
                 <<"h", "a", "n", "d", "_", "t", "r", "a", "c", "k", "e", "d">>)
            \o push(   contains(lower, <<"e", "y", "e">>)
                     /\ contains(lower, <<"t", "r", "a", "c", "k">>),
                 <<"e", "y", "e", "_", "t", "r", "a", "c", "k", "e", "d">>)
            \o push(   contains(lower, <<"s", "o", "u", "n", "d">>)
                     \/ contains(lower, <<"a", "u", "d", "i", "o">>)
                     \/ contains(lower, <<"3", "d", " ", "a", "u", "d", "i", "o">>),
                 <<"s", "p", "a", "t", "i", "a", "l", "_", "a", "u", "d", "i", "o">>)
            \o push(   contains(lower, <<"a", "m", "b", "i", "e", "n", "t">>)
                     /\ contains(lower, <<"s", "o", "u", "n", "d">>),
                 <<"a", "m", "b", "i", "e", "n", "t">>)
            \o push(   contains(lower, <<"v", "o", "i", "c", "e">>)
                     \/ contains(lower, <<"s", "p", "e", "e", "c", "h">>),
                 <<"v", "o", "i", "c", "e", "_", "a", "c", "t", "i", "v", "a", "t", "e", "d">>)
            \o push(   contains(lower, <<"s", "t", "a", "t", "e">>),
                 <<"s", "t", "a", "t", "e">>)
            \o push(   contains(lower, <<"r", "e", "a", "c", "t", "i", "v", "e">>)
                     \/ contains(lower, <<"r", "e", "s", "p", "o", "n", "d">>),
                 <<"r", "e", "a", "c", "t", "i", "v", "e">>)
        \* the default, when nothing was pushed
        with_default ==
            IF /\ suggested = <<>>
               /\ (   contains(lower, <<"i", "n", "t", "e", "r", "a", "c", "t">>)
                    \/ contains(lower, <<"o", "b", "j", "e", "c", "t">>))
            THEN <<get_trait(<<"g", "r", "a", "b", "b", "a", "b", "l", "e">>)>>
            ELSE suggested
    IN  \* unwrap() panics on None
        IF \E k \in 1..Len(with_default) : with_default[k] = None
        THEN [panicked |-> TRUE, value |-> <<>>]
        ELSE [panicked |-> FALSE,
              value |-> [k \in 1..Len(with_default) |-> with_default[k][1]]]

(***************************************************************************)
(* Sources.                                                                *)
(***************************************************************************)
SeqsUpTo(S, n) == UNION {[1..k -> S] : k \in 0..n}

\* the characters the character-by-character sources are drawn from
LexChars == {"-", "1", ".", "\"", "\\", "\n", "/", "*", "e", " ", "é"}

\* sources of the lexer's own tests (lexer.rs, mod tests) and longer cases
LexScenarios ==
    { <<"4", "2", " ", "3", ".", "1", "4", " ", "-", "1", "0", " ", "1", "e", "5">>,
      <<"/", "/", " ", "c", "\n", "o", "r", "b">>,
      <<"@", "g", " ", "@", "p">>,
      <<"/", "*", "\n", "*", "/", "e">>,
      <<"\"", "\n", "\"", "e">>,
      <<"e", " ", "-", " ", "e">>,
      <<"e", ".", ".", "e">> }

LexSources == SeqsUpTo(LexChars, MaxLen) \cup LexScenarios

(***************************************************************************)
(* The lexer as a state machine: one step is one turn of the loop of       *)
(* tokenize(), that is one call of next_token().                           *)
(***************************************************************************)
ParserIdle ==
    /\ tokens = <<>>
    /\ current = 0
    /\ errors = <<>>
    /\ ast_body = <<>>
    /\ result = None
    /\ output = [validate |-> None, validate_detailed |-> None, parse |-> None]

InitLex ==
    /\ source \in LexSources
    /\ lexer = Lexer_new
    /\ lex_tokens = <<>>
    /\ pc = "lex"
    /\ ParserIdle
    /\ holo = NoCall
    /\ registry = [arg |-> <<>>, answer |-> None]

NextToken ==
    /\ pc = "lex"
    /\ LET r == next_token(source, lexer)
           p == tokenize_push(lex_tokens, r.tok)
       IN  /\ lexer' = r.lex
           /\ lex_tokens' = p.tokens
           /\ pc' = IF p.is_eof THEN "lexed" ELSE "lex"
    /\ UNCHANGED <<source, tokens, current, errors, ast_body, result, output, holo, registry>>

NextLex == NextToken

SpecLex == InitLex /\ [][NextLex]_vars

(***************************************************************************)
(* The sources the parser is run on: every concatenation of at most        *)
(* MaxChunks lexemes, and whole programs (the parser's own tests among     *)
(* them).                                                                  *)
(***************************************************************************)
ParseChunks ==
    { <<"o", "r", "b", " ", "x", " ">>,
      <<"g", "r", "o", "u", "p", " ", "g", " ">>,
      <<"w", "o", "r", "l", "d", " ">>,
      <<"{", " ">>,
      <<"}", " ">>,
      <<"x", ":", " ", "1", " ">>,
      <<"x", " ">>,
      <<"\"", "s", "\"", " ">>,
      <<"\"", "u">>,
      <<"@", "t", " ">>,
      <<"1", " ">>,
      <<":", " ">> }

RECURSIVE concat(_)
concat(chunks) == IF chunks = <<>> THEN <<>> ELSE Head(chunks) \o concat(Tail(chunks))

ParseScenarios ==
    { \* parser.rs, test_parse_simple_orb
      <<"o", "r", "b", " ", "t", "e", "s", "t", " ", "{", " ", "c", "o", "l", "o", "r",
        ":", " ", "\"", "r", "e", "d", "\"", " ", "}">>,
      \* parser.rs, test_parse_composition
      <<"c", "o", "m", "p", "o", "s", "i", "t", "i", "o", "n", " ", "\"", "M", "y", " ",
        "S", "c", "e", "n", "e", "\"", " ", "{", "\n", " ", "o", "r", "b", " ", "c", "u",
        "b", "e", " ", "{", "\n", " ", "@", "g", "r", "a", "b", "b", "a", "b", "l", "e",
        "\n", " ", "p", "o", "s", "i", "t", "i", "o", "n", ":", " ", "[", "0", ",", " ",
        "1", ",", " ", "0", "]", "\n", " ", "}", "\n", "}", "\n">>,
      \* parser.rs, test_parse_traits
      <<"o", "r", "b", " ", "b", "u", "t", "t", "o", "n", " ", "{", "\n", " ", "@", "g",
        "r", "a", "b", "b", "a", "b", "l", "e", "\n", " ", "@", "p", "h", "y", "s", "i",
        "c", "s", " ", "{", " ", "m", "a", "s", "s", ":", " ", "1", ".", "5", " ", "}",
        "\n", " ", "c", "o", "l", "o", "r", ":", " ", "\"", "b", "l", "u", "e", "\"", "\n",
        "}", "\n">>,
      \* parser.rs, test_invalid_syntax
      <<"o", "r", "b", " ", "{", " ", "m", "i", "s", "s", "i", "n", "g", " ", "n", "a",
        "m", "e", " ", "}">>,
      \* parser.rs, test_parse_state_machine, shortened
      <<"s", "t", "a", "t", "e", "_", "m", "a", "c", "h", "i", "n", "e", " ", "\"", "G",
        "\"", " ", "{", " ", "i", "n", "i", "t", "i", "a", "l", ":", " ", "\"", "a", "\"",
        " ", "s", "t", "a", "t", "e", "s", ":", " ", "{", " ", "\"", "a", "\"", ":", " ",
        "{", " ", "t", ":", " ", "5", " ", "}", ",", " ", "b", ":", " ", "{", " ", "}",
        " ", "}", " ", "}">>,
      \* parser.rs, test_parse_talent_tree, shortened
      <<"t", "a", "l", "e", "n", "t", "_", "t", "r", "e", "e", " ", "\"", "W", "\"", " ",
        "{", " ", "r", "o", "w", "s", ":", " ", "[", " ", "{", " ", "t", "i", "e", "r",
        ":", " ", "2", ",", " ", "n", "o", "d", "e", "s", ":", " ", "[", " ", "{", " ",
        "i", "d", ":", " ", "\"", "s", "\"", ",", " ", "n", "a", "m", "e", ":", " ", "\"",
        "P", "\"", " ", "}", ",", " ", "{", " ", "i", "d", ":", " ", "\"", "b", "\"", " ",
        "}", " ", "]", " ", "}", " ", "]", " ", "}">>,
      \* an unterminated string as a property value
      <<"o", "r", "b", " ", "a", " ", "{", " ", "c", "o", "l", "o", "r", ":", " ", "\"",
        "r", "e", "d", " ", "}">>,
      \* an unterminated string on the second line, after a valid declaration
      <<"o", "r", "b", " ", "a", " ", "{", " ", "}", "\n", " ", " ", "o", "r", "b", " ",
        "b", " ", "{", " ", "t", ":", " ", "'", "x">>,
      \* two failures: group, npc and logic are skipped, world and entity are resumed at
      <<"o", "r", "b", " ", "{", " ", "}", " ", "g", "r", "o", "u", "p", " ", "g", " ",
        "{", " ", "}", " ", "n", "p", "c", " ", "\"", "n", "\"", " ", "{", " ", "}", " ",
        "w", "o", "r", "l", "d", " ", "w", " ", "{", " ", "}", " ", "x", " ", "l", "o",
        "g", "i", "c", " ", "{", " ", "}", " ", "e", "n", "t", "i", "t", "y", " ", "e",
        " ", "{", " ", "}">>,
      \* failures followed by the other recovery keywords
      <<"}", " ", "c", "o", "m", "p", "o", "s", "i", "t", "i", "o", "n", " ", "c", " ",
        "{", " ", "}", " ", "}", " ", "o", "b", "j", "e", "c", "t", " ", "o", " ", "{",
        " ", "}", " ", "}", " ", "t", "e", "m", "p", "l", "a", "t", "e", " ", "t", " ",
        "{", " ", "}">>,
      \* a failure followed by a function
      <<"}", " ", "f", "u", "n", "c", "t", "i", "o", "n", " ", "f", "(", "a", ",", " ",
        "b", ")", " ", "{", " ", "r", "e", "t", "u", "r", "n", " ", "a", " ", "+", " ",
        "1", " ", "}">>,
      \* import and export
      <<"i", "m", "p", "o", "r", "t", " ", "{", " ", "a", " ", "a", "s", " ", "b", ",",
        " ", "c", " ", "}", " ", "f", "r", "o", "m", " ", "\"", "m", "\"", " ", "e", "x",
        "p", "o", "r", "t", " ", "o", "r", "b", " ", "o", " ", "{", " ", "x", ":", " ",
        "-", "1", " ", "}", " ", "e", "x", "p", "o", "r", "t", " ", "5">>,
      \* statements
      <<"f", "u", "n", "c", "t", "i", "o", "n", " ", "f", "(", ")", " ", "{", " ", "i",
        "f", " ", "(", "a", " ", "<", " ", "1", ")", " ", "{", " ", "l", "e", "t", " ",
        "x", " ", "=", " ", "[", "1", ",", " ", "2", "]", " ", "}", " ", "e", "l", "s",
        "e", " ", "{", " ", "w", "h", "i", "l", "e", " ", "(", "!", "b", ")", " ", "{",
        " ", "g", "(", "a", ".", "b", ")", " ", "}", " ", "}", " ", "}">>,
      \* a for statement
      <<"f", "u", "n", "c", "t", "i", "o", "n", " ", "f", "(", ")", " ", "{", " ", "f",
        "o", "r", " ", "(", "i", " ", ":", " ", "i", " ", "<", " ", "2", " ", ":", " ",
        "i", ")", " ", "{", " ", "}", " ", "}">>,
      \* game constructs
      <<"n", "p", "c", " ", "\"", "n", "\"", " ", "{", " ", "h", "p", ":", " ", "1", " ",
        "}", " ", "q", "u", "e", "s", "t", " ", "q", " ", "{", " ", "}", " ", "a", "b",
        "i", "l", "i", "t", "y", " ", "a", " ", "{", " ", "}", " ", "d", "i", "a", "l",
        "o", "g", "u", "e", " ", "d", " ", "{", " ", "}", " ", "a", "c", "h", "i", "e",
        "v", "e", "m", "e", "n", "t", " ", "\"", "a", "\"", " ", "{", " ", "}">>,
      \* environment, logic and an event handler
      <<"e", "n", "v", "i", "r", "o", "n", "m", "e", "n", "t", " ", "{", " ", "}", " ",
        "l", "o", "g", "i", "c", " ", "{", " ", "f", "(", "1", ")", " ", "}", " ", "c",
        "u", "b", "e", " ", "c", " ", "{", " ", "o", "n", "x", ":", " ", "{", " ", "g",
        "(", ")", " ", "}", " ", "}">>,
      \* brackets that cross: the array is closed by the brace
      <<"o", "r", "b", " ", "a", " ", "{", " ", "x", ":", " ", "[", "1", ",", " ", "2",
        " ", "}", " ", "]">>,
      \* brackets that cross: the call is closed by the bracket
      <<"o", "r", "b", " ", "a", " ", "{", " ", "x", ":", " ", "f", "(", "1", "]", " ",
        ")", " ", "}">>,
      \* an entity whose closing brace is missing at the end of the input
      <<"o", "r", "b", " ", "t", "e", "s", "t", " ", "{", " ", "c", "o", "l", "o", "r",
        ":", " ", "\"", "r", "e", "d", "\"">>,
      \* nested brackets of the three kinds, all closed
      <<"o", "r", "b", " ", "a", " ", "{", " ", "x", ":", " ", "[", "f", "(", "1", ")",
        ",", " ", "(", "2", ")", "]", " ", "y", ":", " ", "{", " ", "k", ":", " ", "[",
        "3", "]", " ", "}", " ", "}">>,
      \* whitespace and newlines only
      <<" ", "\t", "\r", "\n", " ", "\n">>,
      \* line comments of both kinds, a block comment over two lines
      <<"/", "/", " ", "a", "\n", "#", " ", "b", "\n", "/", "*", " ", "c", "\n", " ",
        "*", " ", "d", " ", "*", "/", " ", "\n">>,
      \* a block comment that holds comment markers and is followed by a line comment
      <<"/", "*", " ", "/", "/", " ", "#", " ", "*", " ", "/", " ", "*", "/", "/", "/",
        " ", "o", "r", "b", " ", "x", " ", "{">>,
      \* a block comment that is never closed
      <<" ", "/", "*", " ", "o", "r", "b", " ", "x", " ", "{", " ", "}">>,
      \* a comment after a declaration
      <<"o", "r", "b", " ", "a", " ", "{", " ", "}", " ", "/", "/", " ", "c">>,
      \* quoted names after the keywords that take an identifier
      <<"g", "r", "o", "u", "p", " ", "\"", "c", "\"", " ", "{", " ", "}", " ", "o",
        "r", "b", " ", "\"", "a", "\"", " ", "{", " ", "}", " ", "e", "n", "t", "i",
        "t", "y", " ", "\"", "b", "\"", " ", "{", " ", "}", " ", "o", "b", "j", "e",
        "c", "t", " ", "\"", "d", "\"", " ", "{", " ", "}", " ", "f", "u", "n", "c",
        "t", "i", "o", "n", " ", "\"", "f", "\"", "(", ")", " ", "{", " ", "}">>,
      \* a quoted name after a generic object type, then identifier names
      <<"c", "u", "b", "e", " ", "\"", "e", "\"", " ", "{", " ", "}", " ", "o", "r",
        "b", " ", "a", " ", "{", " ", "}", " ", "s", "p", "h", "e", "r", "e", " ", "s",
        " ", "{", " ", "}", " ", "o", "b", "j", "e", "c", "t", " ", "d", " ", "{", " ",
        "}", " ", "f", "u", "n", "c", "t", "i", "o", "n", " ", "f", "(", ")", " ", "{",
        " ", "}", " ", "e", "n", "t", "i", "t", "y", " ", "b", " ", "{", " ", "}">>,
      \* quoted names after the keywords that take either
      <<"c", "o", "m", "p", "o", "s", "i", "t", "i", "o", "n", " ", "\"", "a", "\"",
        " ", "{", " ", "}", " ", "w", "o", "r", "l", "d", " ", "\"", "b", "\"", " ",
        "{", " ", "}", " ", "t", "e", "m", "p", "l", "a", "t", "e", " ", "\"", "c",
        "\"", " ", "{", " ", "}", " ", "n", "p", "c", " ", "\"", "d", "\"", " ", "{",
        " ", "}", " ", "q", "u", "e", "s", "t", " ", "\"", "e", "\"", " ", "{", " ",
        "}">>,
      \* quoted names after the game constructs
      <<"a", "b", "i", "l", "i", "t", "y", " ", "\"", "f", "\"", " ", "{", "}", " ",
        "d", "i", "a", "l", "o", "g", "u", "e", " ", "\"", "g", "\"", " ", "{", "}",
        " ", "s", "t", "a", "t", "e", "_", "m", "a", "c", "h", "i", "n", "e", " ", "\"",
        "h", "\"", " ", "{", "}", " ", "a", "c", "h", "i", "e", "v", "e", "m", "e", "n",
        "t", " ", "\"", "i", "\"", " ", "{", "}", " ", "t", "a", "l", "e", "n", "t",
        "_", "t", "r", "e", "e", " ", "\"", "j", "\"", " ", "{", "}">>,
      \* identifier names after the keywords that take either
      <<"c", "o", "m", "p", "o", "s", "i", "t", "i", "o", "n", " ", "a", " ", "{", "}",
        " ", "t", "e", "m", "p", "l", "a", "t", "e", " ", "c", " ", "{", "}", " ", "n",
        "p", "c", " ", "d", " ", "{", "}", " ", "q", "u", "e", "s", "t", " ", "e", " ",
        "{", "}", " ", "a", "b", "i", "l", "i", "t", "y", " ", "f", " ", "{", "}", " ",
        "d", "i", "a", "l", "o", "g", "u", "e", " ", "g", " ", "{", "}">>,
      \* identifier names after the remaining game constructs
      <<"s", "t", "a", "t", "e", "_", "m", "a", "c", "h", "i", "n", "e", " ", "h", " ",
        "{", "}", " ", "a", "c", "h", "i", "e", "v", "e", "m", "e", "n", "t", " ", "i",
        " ", "{", "}", " ", "t", "a", "l", "e", "n", "t", "_", "t", "r", "e", "e", " ",
        "j", " ", "{", "}", " ", "w", "o", "r", "l", "d", " ", "w", " ", "{", "}">>,
      \* a using statement in an entity body
      <<"o", "r", "b", " ", "a", " ", "{", " ", "u", "s", "i", "n", "g", " ", "T", " ",
        "{", " ", "x", ":", " ", "1", " ", "}", " ", "}">>,
      \* a using statement with a quoted template name and no overrides
      <<"c", "o", "m", "p", "o", "s", "i", "t", "i", "o", "n", " ", "\"", "c", "\"",
        " ", "{", " ", "y", ":", " ", "2", " ", "u", "s", "i", "n", "g", " ", "\"", "T",
        "\"", " ", "{", " ", "}", " ", "}">>,
      \* lib.rs, test_parse_template_usage, shortened
      <<"c", "o", "m", "p", "o", "s", "i", "t", "i", "o", "n", " ", "\"", "D", "\"",
        " ", "{", "\n", " ", "t", "e", "m", "p", "l", "a", "t", "e", " ", "\"", "C",
        "\"", " ", "{", " ", "g", ":", " ", "\"", "c", "\"", " ", "c", ":", " ", "\"",
        "r", "\"", " ", "}", "\n", " ", "o", "b", "j", "e", "c", "t", " ", "\"", "M",
        "\"", " ", "u", "s", "i", "n", "g", " ", "\"", "C", "\"", " ", "{", " ", "p",
        ":", " ", "[", "0", ",", " ", "0", "]", " ", "}", "\n", "}", "\n">>,
      \* the same with an identifier as the name of the object
      <<"c", "o", "m", "p", "o", "s", "i", "t", "i", "o", "n", " ", "\"", "D", "\"",
        " ", "{", " ", "t", "e", "m", "p", "l", "a", "t", "e", " ", "\"", "C", "\"",
        " ", "{", " ", "g", ":", " ", "\"", "c", "\"", " ", "}", " ", "o", "b", "j",
        "e", "c", "t", " ", "M", " ", "u", "s", "i", "n", "g", " ", "\"", "C", "\"",
        " ", "{", " ", "p", ":", " ", "[", "0", ",", " ", "0", "]", " ", "}", " ", "}">>,
      \* lib.rs, test_parse_logic_block
      <<"c", "o", "m", "p", "o", "s", "i", "t", "i", "o", "n", " ", "\"", "G", "a", "m",
        "e", "\"", " ", "{", "\n", " ", "l", "o", "g", "i", "c", " ", "{", "\n", " ",
        "o", "n", "_", "s", "t", "a", "r", "t", ":", " ", "{", " ", "c", "o", "n", "s",
        "o", "l", "e", ".", "l", "o", "g", "(", "\"", "S", "t", "a", "r", "t", "e", "d",
        "\"", ")", " ", "}", "\n", " ", "}", "\n", "}", "\n">>,
      \* a logic block with an empty event handler
      <<"c", "o", "m", "p", "o", "s", "i", "t", "i", "o", "n", " ", "\"", "G", "\"",
        " ", "{", " ", "l", "o", "g", "i", "c", " ", "{", " ", "o", "n", "_", "s", "t",
        "a", "r", "t", ":", " ", "{", " ", "}", " ", "}", " ", "}">>,
      \* a logic block whose body is statements
      <<"c", "o", "m", "p", "o", "s", "i", "t", "i", "o", "n", " ", "\"", "G", "\"",
        " ", "{", " ", "l", "o", "g", "i", "c", " ", "{", " ", "c", "o", "n", "s", "o",
        "l", "e", ".", "l", "o", "g", "(", "\"", "S", "t", "a", "r", "t", "e", "d",
        "\"", ")", " ", "}", " ", "}">>,
      \* a talent node with name before id
      <<"t", "a", "l", "e", "n", "t", "_", "t", "r", "e", "e", " ", "T", " ", "{", " ",
        "r", "o", "w", "s", ":", " ", "[", " ", "{", " ", "n", "o", "d", "e", "s", ":",
        " ", "[", " ", "{", " ", "n", "a", "m", "e", ":", " ", "\"", "n", "\"", ",",
        " ", "i", "d", ":", " ", "\"", "i", "\"", " ", "}", " ", "]", " ", "}", " ",
        "]", " ", "}">>,
      \* nested entities, a trait and properties around a two-byte character
      <<"w", "o", "r", "l", "d", " ", "\"", "é", "\"", " ", "{", " ", "@", "t", " ",
        "{", " ", "k", ":", " ", "1", " ", "}", " ", "n", ":", " ", "\"", "é", "\"",
        " ", "o", "r", "b", " ", "b", " ", "{", " ", "x", ":", " ", "[", "1", "]", " ",
        "o", "n", "_", "x", ":", " ", "{", " ", "f", "(", ")", " ", "}", " ", "}", " ",
        "c", "u", "b", "e", " ", "c", " ", "{", " ", "}", " ", "}">>,
      \* declarations with locations after a two-byte character
      <<"n", "p", "c", " ", "\"", "é", "\"", " ", "{", " ", "h", "p", ":", " ", "1",
        " ", "}", " ", "e", "x", "p", "o", "r", "t", " ", "f", "u", "n", "c", "t", "i",
        "o", "n", " ", "f", "(", "a", ")", " ", "{", " ", "}", " ", "i", "m", "p", "o",
        "r", "t", " ", "{", " ", "a", " ", "}", " ", "f", "r", "o", "m", " ", "\"", "m",
        "\"", " ", "@", "u">>,
      \* an event handler in the body of an orb
      <<"o", "r", "b", " ", "a", " ", "{", " ", "o", "n", "_", "c", "l", "i", "c", "k",
        ":", " ", "{", " ", "f", "(", ")", " ", "}", " ", "}">>,
      \* an object type followed by a colon in an entity body
      <<"o", "r", "b", " ", "a", " ", "{", " ", "l", "i", "g", "h", "t", ":", " ", "1",
        " ", "}">>,
      \* identifiers that begin with "on": with a block, with a number, without a colon
      <<"o", "r", "b", " ", "a", " ", "{", " ", "o", "n", "_", "a", ":", " ", "{", " ",
        "}", " ", "o", "n", "c", "e", ":", " ", "1", " ", "}">>,
      \* an identifier that begins with "on" and is not followed by a colon
      <<"o", "r", "b", " ", "a", " ", "{", " ", "o", "n", " ", "x", ":", " ", "1", " ",
        "}">>,
      \* an entity body with an item of every class
      <<"o", "r", "b", " ", "a", " ", "{", " ", "@", "t", " ", "x", ":", " ", "1", " ",
        "o", "n", "_", "a", ":", " ", "{", " ", "}", " ", "n", "p", "c", " ", "n", " ",
        "{", " ", "}", " ", "s", "p", "h", "e", "r", "e", " ", "s", " ", "{", " ", "}",
        " ", "c", "u", "b", "e", ":", " ", "2", " ", "}">>,
      \* a number where an item of an entity body starts
      <<"o", "r", "b", " ", "a", " ", "{", " ", "x", ":", " ", "1", " ", "5", " ", "}">>,
      \* entity keywords of the top level inside an entity body
      <<"o", "r", "b", " ", "a", " ", "{", " ", "w", "o", "r", "l", "d", " ", "w", " ",
        "{", " ", "}", " ", "}">>,
      \* a state machine inside an entity body
      <<"o", "r", "b", " ", "a", " ", "{", " ", "n", "p", "c", " ", "n", " ", "{", " ",
        "}", " ", "s", "t", "a", "t", "e", "_", "m", "a", "c", "h", "i", "n", "e", " ",
        "\"", "S", "\"", " ", "{", " ", "}", " ", "}">>,
      \* a state machine with properties around its states, commas between some states
      <<"s", "t", "a", "t", "e", "_", "m", "a", "c", "h", "i", "n", "e", " ", "M", " ",
        "{", " ", "a", ":", " ", "1", " ", "s", "t", "a", "t", "e", "s", ":", " ", "{",
        " ", "\"", "i", "\"", ":", " ", "{", " ", "e", ":", " ", "1", " ", "}", ",",
        " ", "r", ":", " ", "{", " ", "}", " ", "t", ":", " ", "{", " ", "}", " ", "}",
        " ", "b", ":", " ", "{", " ", "s", ":", " ", "{", " ", "}", " ", "}", " ", "}">>,
      \* a state machine with two maps of states
      <<"s", "t", "a", "t", "e", "_", "m", "a", "c", "h", "i", "n", "e", " ", "M", " ",
        "{", " ", "s", "t", "a", "t", "e", "s", ":", " ", "{", " ", "a", ":", " ", "{",
        " ", "}", " ", "}", " ", "c", ":", " ", "[", "1", "]", " ", "s", "t", "a", "t",
        "e", "s", ":", " ", "{", " ", "b", ":", " ", "{", " ", "x", ":", " ", "2", " ",
        "}", " ", "}", " ", "}">>,
      \* an import without a list of specifiers
      <<"i", "m", "p", "o", "r", "t", " ", "f", "r", "o", "m", " ", "\"", "m", "\"">>,
      \* an import with an empty list of specifiers
      <<"i", "m", "p", "o", "r", "t", " ", "{", " ", "}", " ", "f", "r", "o", "m", " ",
        "\"", "m", "\"">>,
      \* an import with a comma after the last specifier
      <<"i", "m", "p", "o", "r", "t", " ", "{", " ", "a", ",", " ", "}", " ", "f", "r",
        "o", "m", " ", "\"", "m", "\"">>,
      \* imports without from, without a comma, without a local name
      <<"i", "m", "p", "o", "r", "t", " ", "{", " ", "a", " ", "}", " ", "\"", "m",
        "\"", " ", "i", "m", "p", "o", "r", "t", " ", "{", " ", "a", " ", "b", " ", "}",
        " ", "f", "r", "o", "m", " ", "\"", "m", "\"", " ", "i", "m", "p", "o", "r",
        "t", " ", "{", " ", "a", " ", "a", "s", " ", "}", " ", "f", "r", "o", "m", " ",
        "\"", "m", "\"">>,
      \* an import of two names, the second with a local name
      <<"i", "m", "p", "o", "r", "t", " ", "{", " ", "a", ",", " ", "b", " ", "a", "s",
        " ", "c", " ", "}", " ", "f", "r", "o", "m", " ", "\"", "m", "\"", " ", "o",
        "r", "b", " ", "a", " ", "{", " ", "}">>,
      \* expressions with an operator of each level, prefix operators, a call of a member
      <<"o", "r", "b", " ", "o", " ", "{", " ", "v", ":", " ", "a", " ", "|", "|", " ",
        "b", " ", "&", "&", " ", "c", " ", "=", "=", " ", "d", " ", "<", " ", "e", " ",
        "-", " ", "f", " ", "-", " ", "g", " ", "*", " ", "-", "h", " ", "+", " ", "2",
        " ", "w", ":", " ", "!", "-", "x", " ", "%", " ", "y", " ", "/", " ", "z", " ",
        "!", "=", " ", "1", " ", "u", ":", " ", "a", ".", "b", "(", "c", ")", " ", "}">>,
      \* operators of rising and of falling level
      <<"o", "r", "b", " ", "o", " ", "{", " ", "v", ":", " ", "a", " ", "*", " ", "b",
        " ", "+", " ", "c", " ", ">", "=", " ", "d", " ", "!", "=", " ", "e", " ", "&",
        "&", " ", "f", " ", "|", "|", " ", "g", " ", "w", ":", " ", "a", " ", "|", "|",
        " ", "b", " ", "&", "&", " ", "c", " ", "=", "=", " ", "d", " ", "<", "=", " ",
        "e", " ", "+", " ", "f", " ", "*", " ", "g", " ", "}">> }

ParseSources == {concat(cs) : cs \in SeqsUpTo(ParseChunks, MaxChunks)} \cup ParseScenarios

(***************************************************************************)
(* The parser as a state machine.  The initial state is the state after    *)
(* Parser::new(source); one step is one turn of the loop of parse(), then  *)
(* its return, then the entry points of lib.rs reading the returned        *)
(* Result.  Each entry point of lib.rs runs Parser::new(source).parse()    *)
(* itself; parse() is a function of the source, so they all read `result`. *)
(***************************************************************************)
NoOutput == [validate |-> None, validate_detailed |-> None, parse |-> None]

\* Parser::parse, the Err arm of the loop: record the error, then synchronize
on_error_no_synchronize(errs, c, e) == [errors |-> Append(errs, e), current |-> c]

on_error(errs, c, e) == [errors |-> Append(errs, e), current |-> synchronize(c)]

Init ==
    /\ source \in ParseSources
    /\ \E lexed \in {tokenize_from(source, Lexer_new, <<>>)} :
            /\ lexer = lexed.lex
            /\ lex_tokens = lexed.tokens
            /\ tokens = filter_trivia(lexed.tokens)
    /\ current = 0
    /\ errors = <<>>
    /\ ast_body = <<>>
    /\ result = None
    /\ output = NoOutput
    /\ pc = "parse"
    /\ holo = NoCall
    /\ registry = [arg |-> <<>>, answer |-> None]

\* Ok(stmt) => body.push(stmt)
push_statement(r) ==
    /\ r.ok
    /\ ast_body' = Append(ast_body, r.node)
    /\ current' = r.cur

\* Err(e) => { self.errors.push(e); self.synchronize(); }
push_error(r) ==
    /\ ~r.ok
    /\ errors' = on_error(errors, r.cur, r.error).errors
    /\ current' = on_error(errors, r.cur, r.error).current

ParseTopLevelOk ==
    /\ pc = "parse"
    /\ ~is_at_end(current)
    /\ push_statement(production("parse_top_level", current))
    /\ UNCHANGED <<source, lexer, lex_tokens, pc, tokens, errors, result, output, holo, registry>>

ParseTopLevelErr ==
    /\ pc = "parse"
    /\ ~is_at_end(current)
    /\ push_error(production("parse_top_level", current))
    /\ UNCHANGED <<source, lexer, lex_tokens, pc, tokens, ast_body, result, output, holo, registry>>

ParseReturn ==
    /\ pc = "parse"
    /\ is_at_end(current)
    /\ result' = Some(parse_result(errors, ast_body))
    /\ pc' = "returned"
    /\ UNCHANGED <<source, lexer, lex_tokens, tokens, current, errors, ast_body, output,
                   holo, registry>>

Validate ==
    /\ pc = "returned"
    /\ output.validate = None
    /\ output' = [output EXCEPT !.validate = Some(validate(result[1]))]
    /\ UNCHANGED <<source, lexer, lex_tokens, pc, tokens, current, errors, ast_body, result,
                   holo, registry>>

ValidateDetailed ==
    /\ pc = "returned"
    /\ output.validate_detailed = None
    /\ output' = [output EXCEPT !.validate_detailed = Some(validate_detailed(result[1]))]
    /\ UNCHANGED <<source, lexer, lex_tokens, pc, tokens, current, errors, ast_body, result,
                   holo, registry>>

Parse ==
    /\ pc = "returned"
    /\ output.parse = None
    /\ output' = [output EXCEPT !.parse = Some(lib_parse(result[1]))]
    /\ UNCHANGED <<source, lexer, lex_tokens, pc, tokens, current, errors, ast_body, result,
                   holo, registry>>

Next ==
    \/ ParseTopLevelOk
    \/ ParseTopLevelErr
    \/ ParseReturn
    \/ Validate
    \/ ValidateDetailed
    \/ Parse

Spec == Init /\ [][Next]_vars

(***************************************************************************)
(* The type lattice as a state machine: the initial state holds the two    *)
(* types of a call self.is_assignable_to(other), one step is the call.     *)
(***************************************************************************)
MaxDepth == 2

\* the types the calls are made with: every type that nests arrays up to
\* depth d around a plain type, an object type or a function type
RECURSIVE HoloTypes(_)
HoloTypes(d) ==
    IF d = 0
    THEN {[tag |-> t] : t \in PlainTypes}
         \cup {[tag |-> "Object", props |-> <<>>]}
         \cup {[tag |-> "Object", props |-> <<<<"x", [tag |-> t]>>>>] :
                  t \in {"Number", "Null", "Any"}}
         \cup {[tag |-> "Function", params |-> ps, ret |-> [tag |-> r]] :
                  ps \in {<<>>, <<[tag |-> "Number"]>>}, r \in {"Void", "Number"}}
    ELSE HoloTypes(d - 1) \cup {[tag |-> "Array", inner |-> t] : t \in HoloTypes(d - 1)}

InitTypes ==
    /\ holo \in [self : HoloTypes(MaxDepth), other : HoloTypes(MaxDepth), answer : {None}]
    /\ source = <<>>
    /\ lexer = Lexer_new
    /\ lex_tokens = <<>>
    /\ pc = "types"
    /\ ParserIdle
    /\ registry = [arg |-> <<>>, answer |-> None]

IsAssignableTo ==
    /\ pc = "types"
    /\ holo.answer = None
    /\ holo' = [holo EXCEPT !.answer = Some(is_assignable_to(holo.self, holo.other))]
    /\ UNCHANGED <<source, lexer, lex_tokens, pc, tokens, current, errors, ast_body,
                   result, output, registry>>

NextTypes == IsAssignableTo

SpecTypes == InitTypes /\ [][NextTypes]_vars

(***************************************************************************)
(* The trait registry as a state machine: the initial state holds the      *)
(* argument of a call (a trait name or a description), one step is one of  *)
(* the calls trait_exists, get_trait, list_all_traits and                  *)
(* suggest_traits_for_description.                                         *)
(***************************************************************************)
\* the pieces descriptions are put together from
DescriptionChunks ==
    { <<"h", "a", "n", "d">>,
      <<"t", "r", "a", "c", "k">>,
      <<"e", "y", "e">>,
      <<"s", "o", "u", "n", "d">>,
      <<"a", "m", "b", "i", "e", "n", "t">>,
      <<"o", "b", "j", "e", "c", "t">>,
      <<"G", "r", "a", "b">>,
      <<" ">>,
      <<"s">>,
      <<"t", "a", "t", "e">> }

\* every pattern of the rules, alone
RulePatterns ==
    { <<"g", "r", "a", "b">>,
      <<"p", "i", "c", "k", " ", "u", "p">>,
      <<"h", "o", "l", "d">>,
      <<"t", "h", "r", "o", "w">>,
      <<"t", "o", "s", "s">>,
      <<"c", "l", "i", "c", "k">>,
      <<"p", "r", "e", "s", "s">>,
      <<"b", "u", "t", "t", "o", "n">>,
      <<"d", "r", "a", "g">>,
      <<"p", "o", "i", "n", "t">>,
      <<"l", "a", "s", "e", "r">>,
      <<"r", "e", "s", "i", "z", "e">>,
      <<"s", "c", "a", "l", "e">>,
      <<"c", "o", "l", "l", "i", "d", "e">>,
      <<"c", "o", "l", "l", "i", "s", "i", "o", "n">>,
      <<"s", "o", "l", "i", "d">>,
      <<"p", "h", "y", "s", "i", "c">>,
      <<"b", "o", "u", "n", "c", "e">>,
      <<"f", "a", "l", "l">>,
      <<"r", "i", "g", "i", "d">>,
      <<"g", "r", "a", "v", "i", "t", "y">>,
      <<"t", "r", "i", "g", "g", "e", "r">>,
      <<"d", "e", "t", "e", "c", "t">>,
      <<"g", "l", "o", "w">>,
      <<"l", "i", "g", "h", "t", " ", "u", "p">>,
      <<"s", "h", "i", "n", "e">>,
      <<"t", "r", "a", "n", "s", "p", "a", "r">>,
      <<"s", "e", "e", " ", "t", "h", "r", "o", "u", "g", "h">>,
      <<"g", "l", "a", "s", "s">>,
      <<"r", "e", "f", "l", "e", "c", "t">>,
      <<"m", "i", "r", "r", "o", "r">>,
      <<"a", "n", "i", "m", "a", "t">>,
      <<"b", "i", "l", "l", "b", "o", "a", "r", "d">>,
      <<"f", "a", "c", "e", " ", "c", "a", "m", "e", "r", "a">>,
      <<"n", "e", "t", "w", "o", "r", "k">>,
      <<"m", "u", "l", "t", "i", "p", "l", "a", "y">>,
      <<"s", "y", "n", "c">>,
      <<"p", "e", "r", "s", "i", "s", "t">>,
      <<"s", "a", "v", "e">>,
      <<"h", "o", "s", "t">>,
      <<"s", "e", "r", "v", "e", "r">>,
      <<"s", "t", "a", "c", "k">>,
      <<"p", "i", "l", "e">>,
      <<"a", "t", "t", "a", "c", "h">>,
      <<"c", "o", "n", "n", "e", "c", "t">>,
      <<"e", "q", "u", "i", "p">>,
      <<"w", "e", "a", "r">>,
      <<"t", "o", "o", "l">>,
      <<"c", "o", "n", "s", "u", "m", "e">>,
      <<"e", "a", "t">>,
      <<"d", "r", "i", "n", "k">>,
      <<"d", "e", "s", "t", "r", "o", "y">>,
      <<"b", "r", "e", "a", "k">>,
      <<"a", "n", "c", "h", "o", "r">>,
      <<"f", "i", "x", "e", "d", " ", "p", "o", "s", "i", "t", "i", "o", "n">>,
      <<"t", "r", "a", "c", "k">>,
      <<"f", "o", "l", "l", "o", "w">>,
      <<"h", "a", "n", "d">>,
      <<"e", "y", "e">>,
      <<"s", "o", "u", "n", "d">>,
      <<"a", "u", "d", "i", "o">>,
      <<"3", "d", " ", "a", "u", "d", "i", "o">>,
      <<"a", "m", "b", "i", "e", "n", "t">>,
      <<"v", "o", "i", "c", "e">>,
      <<"s", "p", "e", "e", "c", "h">>,
      <<"s", "t", "a", "t", "e">>,
      <<"r", "e", "a", "c", "t", "i", "v", "e">>,
      <<"r", "e", "s", "p", "o", "n", "d">>,
      <<"i", "n", "t", "e", "r", "a", "c", "t">>,
      <<"o", "b", "j", "e", "c", "t">> }

DescriptionScenarios ==
    { \* traits.rs, test_suggest_traits
      <<"a", " ", "b", "a", "l", "l", " ", "t", "h", "a", "t", " ", "c", "a", "n", " ", "b",
        "e", " ", "g", "r", "a", "b", "b", "e", "d", " ", "a", "n", "d", " ", "t", "h",
        "r", "o", "w", "n">>,
      \* capital letters; "Create" holds "eat"
      <<"C", "r", "e", "a", "t", "e", " ", "a", " ", "G", "L", "O", "W", "I", "N", "G", " ",
        "O", "b", "j", "e", "c", "t">>,
      \* no rule but the default
      <<"a", "n", " ", "i", "n", "t", "e", "r", "a", "c", "t", "i", "v", "e", " ", "t", "h",
        "i", "n", "g">>,
      \* no rule and no default
      <<"n", "o", "t", "h", "i", "n", "g", " ", "h", "e", "r", "e">>,
      \* the first rule and the last one
      <<"H", "o", "l", "d", " ", "i", "t", " ", "a", "n", "d", " ", "r", "e", "s", "p", "o",
        "n", "d">>,
      \* the rules with two patterns each: hand, eye and ambient
      <<"a", "m", "b", "i", "e", "n", "t", " ", "s", "o", "u", "n", "d", "s", " ", "w", "h",
        "i", "l", "e", " ", "e", "y", "e", "s", " ", "a", "n", "d", " ", "h", "a", "n",
        "d", "s", " ", "a", "r", "e", " ", "t", "r", "a", "c", "k", "e", "d">>,
      \* many rules in one description
      <<"a", " ", "s", "o", "l", "i", "d", " ", "g", "l", "a", "s", "s", " ", "b", "u", "t",
        "t", "o", "n", " ", "t", "h", "a", "t", " ", "b", "o", "u", "n", "c", "e", "s",
        ",", " ", "s", "h", "i", "n", "e", "s", " ", "a", "n", "d", " ", "s", "y", "n",
        "c", "s", " ", "s", "t", "a", "t", "e">> }

\* names that are in no entry of ALL_TRAITS
UnknownNames ==
    { <<"n", "o", "n", "e", "x", "i", "s", "t", "e", "n", "t">>,
      <<"G", "r", "a", "b", "b", "a", "b", "l", "e">>,
      <<"g", "r", "a", "b">>,
      <<"g", "r", "a", "b", "b", "a", "b", "l", "e", " ">>,
      <<"u", "i">> }

TraitArguments ==
    {concat(cs) : cs \in SeqsUpTo(DescriptionChunks, MaxChunks)}
        \cup RulePatterns \cup DescriptionScenarios \cup UnknownNames
        \cup {ALL_TRAITS[k][1] : k \in 1..Len(ALL_TRAITS)}

InitTraits ==
    /\ registry \in [arg : TraitArguments, answer : {None}]
    /\ source = <<>>
    /\ lexer = Lexer_new
    /\ lex_tokens = <<>>
    /\ pc = "traits"
    /\ ParserIdle
    /\ holo = NoCall

\* ALL_TRAITS.iter().any(|t| t.0 == name)
TraitExists ==
    /\ pc = "traits"
    /\ registry.answer = None
    /\ registry' = [registry EXCEPT !.answer =
            Some([call |-> "trait_exists",
                  value |-> \E k \in 1..Len(ALL_TRAITS) : ALL_TRAITS[k][1] = registry.arg])]
    /\ UNCHANGED <<source, lexer, lex_tokens, pc, tokens, current, errors, ast_body,
                   result, output, holo>>

GetTrait ==
    /\ pc = "traits"
    /\ registry.answer = None
    /\ registry' = [registry EXCEPT !.answer =
            Some([call |-> "get_trait", value |-> get_trait(registry.arg)])]
    /\ UNCHANGED <<source, lexer, lex_tokens, pc, tokens, current, errors, ast_body,
                   result, output, holo>>

\* ALL_TRAITS.iter().map(|t| TraitDef { ... }).collect()
ListAllTraits ==
    /\ pc = "traits"
    /\ registry.answer = None
    /\ registry' = [registry EXCEPT !.answer =
            Some([call |-> "list_all_traits",
                  value |-> [k \in 1..Len(ALL_TRAITS) |->
                                [name |-> ALL_TRAITS[k][1], category |-> ALL_TRAITS[k][2],
                                 description |-> ALL_TRAITS[k][3],
                                 default_properties |-> ALL_TRAITS[k][4]]]])]
    /\ UNCHANGED <<source, lexer, lex_tokens, pc, tokens, current, errors, ast_body,
                   result, output, holo>>

SuggestTraits ==
    /\ pc = "traits"
    /\ registry.answer = None
    /\ registry' = [registry EXCEPT !.answer =
            Some([call |-> "suggest_traits_for_description",
                  value |-> suggest_traits_for_description(registry.arg)])]
    /\ UNCHANGED <<source, lexer, lex_tokens, pc, tokens, current, errors, ast_body,
                   result, output, holo>>

NextTraits ==
    \/ TraitExists
    \/ GetTrait
    \/ ListAllTraits
    \/ SuggestTraits

SpecTraits == InitTraits /\ [][NextTraits]_vars

(***************************************************************************)
(* parse_expression as a function of the token stream: the initial state   *)
(* holds a parser over a stream of operands, prefix operators and binary   *)
(* operators, one step is parse_expression at the first token.  The        *)
(* streams are written as token types, so that every operator token of     *)
(* the ladder occurs, a Minus token among them.                            *)
(***************************************************************************)
\* the most binary operators of a stream
MaxOperators == 2

ExprInfix ==
    {"Or", "And", "Eq", "Ne", "Lt", "Gt", "Le", "Ge", "Plus", "Minus", "Star", "Slash",
     "Percent"}

\* the binary operators that are put between operands with prefix operators
ExprInfixFew == {"And", "Lt", "Minus", "Star"}

ExprPrefixes == {<<>>, <<"Bang">>, <<"Minus">>}

\* the streams of n binary operators of infix, every operand behind one of
\* prefixes
RECURSIVE ExprTypes(_, _, _)
ExprTypes(n, infix, prefixes) ==
    IF n = 0 THEN {p \o <<"Identifier">> : p \in prefixes}
    ELSE {s \o <<op>> \o p \o <<"Identifier">> :
             s \in ExprTypes(n - 1, infix, prefixes), op \in infix, p \in prefixes}

ExprStreams ==
    UNION {ExprTypes(n, ExprInfix, {<<>>}) \cup ExprTypes(n, ExprInfixFew, ExprPrefixes) :
              n \in 0..MaxOperators}
    \cup { <<"Minus", "Identifier", "Plus", "Identifier", "Star", "Identifier", "Minus",
             "Bang", "Identifier">>,
           <<"Identifier", "Or", "Identifier", "And", "Identifier", "Eq", "Identifier",
             "Lt", "Identifier", "Plus", "Identifier", "Star", "Identifier">>,
           <<"Identifier", "Percent", "Identifier", "Minus", "Identifier", "Ge",
             "Identifier", "Ne", "Identifier", "And", "Identifier", "Or", "Identifier">>,
           <<"Bang", "Minus", "Bang", "Identifier">>,
           <<"Minus", "Minus", "Identifier", "Plus", "Bang", "Bang", "Identifier">>,
           <<"Identifier", "Dot", "Identifier", "LParen", "Identifier", "RParen">>,
           <<"Minus", "Identifier", "Dot", "Identifier", "LParen", "Identifier", "RParen",
             "Star", "Identifier">>,
           <<"Identifier", "Plus">>,
           <<"Identifier", "Star", "Minus">> }

\* the text of the k-th token of a stream: the operator's characters, or
\* for an identifier the k-th letter
ExprText(type, k) ==
    CASE type = "Or" -> <<"|", "|">>
      [] type = "And" -> <<"&", "&">>
      [] type = "Eq" -> <<"=", "=">>
      [] type = "Ne" -> <<"!", "=">>
      [] type = "Lt" -> <<"<">>
      [] type = "Gt" -> <<">">>
      [] type = "Le" -> <<"<", "=">>
      [] type = "Ge" -> <<">", "=">>
      [] type = "Plus" -> <<"+">>
      [] type = "Minus" -> <<"-">>
      [] type = "Star" -> <<"*">>
      [] type = "Slash" -> <<"/">>
      [] type = "Percent" -> <<"%">>
      [] type = "Bang" -> <<"!">>
      [] type = "Dot" -> <<".">>
      [] type = "LParen" -> <<"(">>
      [] type = "RParen" -> <<")">>
      [] OTHER -> <<<<"a", "b", "c", "d", "e", "f", "g", "h", "i", "j", "k", "l", "m",
                       "n">>[k]>>

\* the tokens of a stream, one column each on line 1, and Eof
ExprTokens(types) ==
    [k \in 1..Len(types) |-> Token_new(types[k], ExprText(types[k], k), 1, k, k - 1, k)]
    \o <<Token_eof(1, Len(types) + 1, Len(types))>>

InitExpr ==
    /\ \E types \in ExprStreams : tokens = ExprTokens(types)
    /\ current = 0
    /\ errors = <<>>
    /\ ast_body = <<>>
    /\ result = None
    /\ output = NoOutput
    /\ pc = "expression"
    /\ source = <<>>
    /\ lexer = Lexer_new
    /\ lex_tokens = <<>>
    /\ holo = NoCall
    /\ registry = [arg |-> <<>>, answer |-> None]

\* parse_expression() at the cursor; result is its Result, current the
\* cursor it leaves
ParseExpression ==
    /\ pc = "expression"
    /\ \E r \in {parse_expression(current)} :
            /\ result' = Some(r)
            /\ current' = r.cur
    /\ pc' = "parsed"
    /\ UNCHANGED <<source, lexer, lex_tokens, tokens, errors, ast_body, output, holo,
                   registry>>

NextExpr == ParseExpression

SpecExpr == InitExpr /\ [][NextExpr]_vars

(***************************************************************************)
(* Reading the token vector against the source.                            *)
(***************************************************************************)
Whitespace == {" ", "\t", "\r"}

Trivia == {"Whitespace", "Newline", "Comment", "BlockComment"}

\* the number of characters among the first k of src, the first k - 1 of which
\* take pos bytes, that start before byte offset b
RECURSIVE count_before(_, _, _, _)
count_before(src, k, pos, b) ==
    IF k > Len(src) \/ pos >= b THEN k - 1
    ELSE count_before(src, k + 1, pos + len_utf8(src[k]), b)

\* the number of characters of src that start before byte offset b
chars_before(src, b) == count_before(src, 1, 0, b)

\* the character of src at byte offset b, NoChar at the end of the source
char_at(src, b) ==
    IF chars_before(src, b) < Len(src) THEN src[chars_before(src, b) + 1] ELSE NoChar

\* the character after the one at byte offset b
char_after(src, b) ==
    IF chars_before(src, b) + 1 < Len(src) THEN src[chars_before(src, b) + 2] ELSE NoChar

\* the tokens whose span [start, end) holds the k-th character of the source
covering(k) ==
    {j \in 1..Len(lex_tokens) :
        /\ lex_tokens[j].start <= char_index(source, k - 1)
        /\ char_index(source, k - 1) < lex_tokens[j].end}

newlines_before(src, n) == Cardinality({k \in 1..n : src[k] = "\n"})

\* the index of the last newline among the first n characters, 0 when none
last_newline(src, n) ==
    IF \E k \in 1..n : src[k] = "\n"
    THEN CHOOSE k \in 1..n : src[k] = "\n" /\ \A m \in (k + 1)..n : src[m] # "\n"
    ELSE 0

token_types(toks) == [k \in 1..Len(toks) |-> toks[k].token_type]

(***************************************************************************)
(* C4: the token vector tokenize returns holds exactly one Eof token, and  *)
(* it is the last element; while tokenize is still looping no Eof has been *)
(* pushed.                                                                 *)
(***************************************************************************)
C4_EofIsLastAndOnly ==
    /\ pc = "lex" => \A k \in 1..Len(lex_tokens) : lex_tokens[k].token_type # "Eof"
    /\ pc # "lex" =>
        /\ Len(lex_tokens) >= 1
        /\ lex_tokens[Len(lex_tokens)].token_type = "Eof"
        /\ \A k \in 1..(Len(lex_tokens) - 1) : lex_tokens[k].token_type # "Eof"

C4_Witness ==
    /\ pc = "lexed"
    /\ Len(lex_tokens) >= 3
    /\ lex_tokens[Len(lex_tokens)].token_type = "Eof"

(***************************************************************************)
(* C5: every call of next_token made while input remains takes at least    *)
(* one character from the iterator, a call made at the end of the input    *)
(* returns Eof and ends tokenize, and the vector never holds more than     *)
(* len(source) + 1 tokens.                                                 *)
(***************************************************************************)
C5_LexerAlwaysAdvances ==
    [][pc = "lex" =>
        /\ lexer.i < Len(source) => lexer'.i > lexer.i
        /\ lexer.i = Len(source) => pc' = "lexed"
        /\ lexer'.i <= Len(source)
        /\ Len(lex_tokens') <= Len(source) + 1]_vars

\* malformed input became an Invalid token and scanning went on to the end
C5_Witness ==
    /\ pc = "lexed"
    /\ Len(lex_tokens) >= 3
    /\ lex_tokens[1].token_type = "Invalid"
    /\ lexer.i = Len(source)

(***************************************************************************)
(* C6: every token has start <= end <= len(source); the tokens are in      *)
(* source order without overlap, and every character of the source that no *)
(* token covers is a space, a tab or a carriage return (so the spans of    *)
(* the non-trivia tokens, concatenated, are the source without whitespace  *)
(* and comments).                                                          *)
(***************************************************************************)
C6_SpansInBounds ==
    \A j \in 1..Len(lex_tokens) :
        /\ 0 <= lex_tokens[j].start
        /\ lex_tokens[j].start <= lex_tokens[j].end
        /\ lex_tokens[j].end <= byte_len(source)

C6_SpansTileSource ==
    pc # "lex" =>
        /\ C6_SpansInBounds
        /\ \A j \in 1..(Len(lex_tokens) - 1) : lex_tokens[j].end <= lex_tokens[j + 1].start
        /\ \A k \in 1..Len(source) : covering(k) = {} => source[k] \in Whitespace

(***************************************************************************)
(* C7: every emitted token has line = 1 + the number of newline characters *)
(* before its start, and column = 1 + the number of characters between the *)
(* preceding newline (or the start of the source) and its start.           *)
(***************************************************************************)
exact_line(src, b) == 1 + newlines_before(src, chars_before(src, b))

exact_column(src, b) == 1 + chars_before(src, b) - last_newline(src, chars_before(src, b))

C7_LineColumnExact ==
    \A j \in 1..Len(lex_tokens) :
        /\ lex_tokens[j].line = exact_line(source, lex_tokens[j].start)
        /\ lex_tokens[j].column = exact_column(source, lex_tokens[j].start)

(***************************************************************************)
(* C8: a token that starts at a '-' is a Number when an ASCII digit        *)
(* follows the '-', and otherwise the one-character token Minus.           *)
(***************************************************************************)
C8_MinusToken ==
    \A j \in 1..Len(lex_tokens) :
        (lex_tokens[j].token_type # "Eof" /\ char_at(source, lex_tokens[j].start) = "-") =>
            IF is_ascii_digit(char_after(source, lex_tokens[j].start))
            THEN lex_tokens[j].token_type = "Number"
            ELSE /\ lex_tokens[j].token_type = "Minus"
                 /\ lex_tokens[j].end = lex_tokens[j].start + 1

(***************************************************************************)
(* C9: the source "." lexes to Dot, ".." to Dot Dot, "..." to Spread       *)
(* (each followed by Eof).                                                 *)
(***************************************************************************)
C9_DotsByCount ==
    pc # "lex" =>
        /\ source = <<".">> => token_types(lex_tokens) = <<"Dot", "Eof">>
        /\ source = <<".", ".">> => token_types(lex_tokens) = <<"Dot", "Dot", "Eof">>
        /\ source = <<".", ".", ".">> => token_types(lex_tokens) = <<"Spread", "Eof">>

(***************************************************************************)
(* C1: Parser::parse returns Ok with an AST exactly when no diagnostic was *)
(* recorded, and otherwise Err with the recorded, non-empty list; validate *)
(* is true exactly when no diagnostic was recorded, the `valid` of         *)
(* validate_detailed equals validate, and lib.rs parse answers with the    *)
(* AST or with a non-empty "errors" array accordingly.                     *)
(***************************************************************************)
C1_OkXorErrors ==
    /\ pc = "returned" =>
        /\ result[1].is_ok <=> errors = <<>>
        /\ result[1].is_ok => result[1].ast # None /\ result[1].errors = <<>>
        /\ ~result[1].is_ok =>
            result[1].ast = None /\ result[1].errors # <<>> /\ result[1].errors = errors
    /\ output.validate # None => (output.validate[1] <=> errors = <<>>)
    /\ output.validate_detailed # None =>
        /\ output.validate_detailed[1].valid <=> errors = <<>>
        /\ Len(output.validate_detailed[1].errors) = Len(errors)
    /\ (output.validate # None /\ output.validate_detailed # None) =>
        (output.validate_detailed[1].valid <=> output.validate[1])
    /\ output.parse # None =>
        /\ output.parse[1].kind = "ast" <=> errors = <<>>
        /\ output.parse[1].kind = "errors" <=> output.parse[1].errors # <<>>
        /\ Len(output.parse[1].errors) = Len(errors)

\* a source with two diagnostics went through parse, validate and validate_detailed
C1_Witness ==
    /\ pc = "returned"
    /\ Len(errors) >= 2
    /\ output.validate = Some(FALSE)
    /\ output.validate_detailed # None
    /\ output.parse # None

(***************************************************************************)
(* C2: every turn of the loop of Parser::parse, successful or failed,      *)
(* moves the cursor forward by at least one token and never past the last  *)
(* token, so the loop ends after at most len(tokens) - 1 turns; parse      *)
(* returns with the cursor on the Eof token, which is the last token.      *)
(***************************************************************************)
C2_EveryIterationAdvances ==
    [][/\ (pc = "parse" /\ pc' = "parse") =>
            current' > current /\ current' <= Len(tokens) - 1
       /\ (pc = "parse" /\ pc' = "returned") =>
            /\ current' = Len(tokens) - 1
            /\ tokens[current' + 1].token_type = "Eof"]_vars

\* parse returned after turns of both kinds
C2_Witness ==
    /\ pc = "returned"
    /\ errors # <<>>
    /\ ast_body # <<>>
    /\ current = Len(tokens) - 1
    /\ Len(tokens) >= 4

(***************************************************************************)
(* C3: a failed parse_top_level records exactly one diagnostic, placed at  *)
(* the token the cursor was on when the production failed, and the cursor  *)
(* is then moved to the first token, strictly after that token, that is    *)
(* one of composition, world, orb, entity, object, template, import,       *)
(* export, function or Eof.  This is the claim as written: it fails when   *)
(* the production failed on the Eof token itself, where advance() does not *)
(* move the cursor.                                                        *)
(***************************************************************************)
C3_ResumeKinds ==
    {"Composition", "World", "Orb", "Entity", "Object", "Template",
     "Import", "Export", "Function", "Eof"}

\* the first cursor from c on whose token is a resynchronisation point
C3_first_resume(c) ==
    CHOOSE k \in c..(Len(tokens) - 1) :
        /\ tokens[k + 1].token_type \in C3_ResumeKinds
        /\ \A m \in c..(k - 1) : tokens[m + 1].token_type \notin C3_ResumeKinds

C3_OneTokenPastTheError ==
    [][errors' # errors =>
        LET e == production("parse_top_level", current).cur
        IN  /\ Len(errors') = Len(errors) + 1
            /\ SubSeq(errors', 1, Len(errors)) = errors
            /\ errors'[Len(errors')].line = tokens[e + 1].line
            /\ errors'[Len(errors')].column = tokens[e + 1].column
            /\ current' >= e + 1
            /\ current' = C3_first_resume(e + 1)]_vars

(***************************************************************************)
(* C3, amended: as above, except that a production that failed on the Eof  *)
(* token leaves the cursor on it: the cursor moves to the first            *)
(* resynchronisation point strictly after the error token when that token  *)
(* is not Eof, and stays on Eof otherwise.  group, environment, logic,     *)
(* npc and the other keywords are skipped like any other token.            *)
(***************************************************************************)
C3_SynchronizeResumes ==
    [][errors' # errors =>
        LET e == production("parse_top_level", current).cur
        IN  /\ Len(errors') = Len(errors) + 1
            /\ SubSeq(errors', 1, Len(errors)) = errors
            /\ errors'[Len(errors')].line = tokens[e + 1].line
            /\ errors'[Len(errors')].column = tokens[e + 1].column
            /\ current' = IF tokens[e + 1].token_type = "Eof"
                          THEN e
                          ELSE C3_first_resume(e + 1)
            /\ pc' = "parse"]_vars

\* the first production failed on an identifier; synchronize skipped a group
\* declaration and stopped at a later resynchronisation keyword
C3_Witness ==
    /\ pc = "parse"
    /\ Len(errors) = 1
    /\ ast_body = <<>>
    /\ tokens[1].token_type = "Identifier"
    /\ errors[1].line = tokens[1].line
    /\ errors[1].column = tokens[1].column
    /\ current >= 2
    /\ \E k \in 1..(current - 1) : tokens[k + 1].token_type = "Group"
    /\ tokens[current + 1].token_type \in C3_ResumeKinds \ {"Eof"}

(***************************************************************************)
(* C10: when the lexer starts a token at a quote that no later unescaped   *)
(* quote of the same kind closes, that token is an Invalid token running   *)
(* to the end of the source; a parse_top_level that succeeds has consumed  *)
(* no Invalid token; and for such a source parse returns Err, validate is  *)
(* false and validate_detailed answers valid = false with a non-empty      *)
(* error list whose every entry has line >= 1 and column >= 1.             *)
(***************************************************************************)
\* no character from the i-th on closes a string opened with quote
RECURSIVE C10_unclosed(_, _, _)
C10_unclosed(src, i, quote) ==
    IF i > Len(src) THEN TRUE
    ELSE IF src[i] = quote THEN FALSE
    ELSE IF src[i] = "\\" THEN C10_unclosed(src, i + 2, quote)
    ELSE C10_unclosed(src, i + 1, quote)

\* the tokens that start a string literal that is never closed
C10_unterminated ==
    {j \in 1..Len(lex_tokens) :
        /\ lex_tokens[j].token_type # "Eof"
        /\ char_at(source, lex_tokens[j].start) \in {"\"", "'"}
        /\ C10_unclosed(source, chars_before(source, lex_tokens[j].start) + 2,
                        char_at(source, lex_tokens[j].start))}

C10_UnterminatedStringFails ==
    /\ \A j \in C10_unterminated :
            /\ lex_tokens[j].token_type = "Invalid"
            /\ lex_tokens[j].end = byte_len(source)
            /\ j = Len(lex_tokens) - 1
    /\ (pc = "parse" /\ ~is_at_end(current) /\ production("parse_top_level", current).ok) =>
            \A k \in (current + 1)..production("parse_top_level", current).cur :
                tokens[k].token_type # "Invalid"
    /\ (pc = "returned" /\ C10_unterminated # {}) =>
            /\ ~result[1].is_ok
            /\ errors # <<>>
            /\ output.validate # None => output.validate[1] = FALSE
            /\ output.validate_detailed # None =>
                /\ output.validate_detailed[1].valid = FALSE
                /\ output.validate_detailed[1].errors # <<>>
                /\ \A k \in 1..Len(output.validate_detailed[1].errors) :
                    /\ output.validate_detailed[1].errors[k].line >= 1
                    /\ output.validate_detailed[1].errors[k].column >= 1

\* validate and validate_detailed answered for an orb declaration that runs
\* into an unterminated string, the diagnostic being reported at its token
C10_Witness ==
    /\ pc = "returned"
    /\ C10_unterminated # {}
    /\ Len(tokens) >= 6
    /\ tokens[1].token_type = "Orb"
    /\ tokens[Len(tokens) - 1].token_type = "Invalid"
    /\ \E k \in 1..Len(errors) :
        /\ errors[k].line = tokens[Len(tokens) - 1].line
        /\ errors[k].column = tokens[Len(tokens) - 1].column
    /\ output.validate_detailed # None
    /\ output.validate = Some(FALSE)

(***************************************************************************)
(* C11: a source whose brackets are unbalanced is never accepted.  When    *)
(* parse returns Ok, the '{' '}', '[' ']' and '(' ')' tokens of the        *)
(* filtered token stream are properly matched and nested; an entity whose  *)
(* closing '}' is missing at the end of the input yields an error and no   *)
(* AST.                                                                    *)
(***************************************************************************)
C11_opener(closer) ==
    CASE closer = "RBrace" -> "LBrace"
      [] closer = "RBracket" -> "LBracket"
      [] closer = "RParen" -> "LParen"

\* the bracket tokens from the k-th on close the brackets of `open` (innermost
\* first) and one another, properly nested
RECURSIVE C11_matched(_, _, _)
C11_matched(toks, k, open) ==
    IF k > Len(toks) THEN open = <<>>
    ELSE IF toks[k].token_type \in {"LBrace", "LBracket", "LParen"}
    THEN C11_matched(toks, k + 1, <<toks[k].token_type>> \o open)
    ELSE IF toks[k].token_type \in {"RBrace", "RBracket", "RParen"}
    THEN /\ open # <<>>
         /\ Head(open) = C11_opener(toks[k].token_type)
         /\ C11_matched(toks, k + 1, Tail(open))
    ELSE C11_matched(toks, k + 1, open)

C11_UnbalancedNeverAccepted ==
    pc = "returned" =>
        /\ result[1].is_ok => C11_matched(tokens, 1, <<>>)
        /\ ~C11_matched(tokens, 1, <<>>) =>
            /\ ~result[1].is_ok
            /\ result[1].ast = None
            /\ result[1].errors # <<>>

\* parse returned for an orb whose body is opened and never closed
C11_Witness ==
    /\ pc = "returned"
    /\ Len(tokens) >= 5
    /\ tokens[1].token_type = "Orb"
    /\ tokens[3].token_type = "LBrace"
    /\ \A k \in 1..Len(tokens) : tokens[k].token_type # "RBrace"
    /\ ~C11_matched(tokens, 1, <<>>)
    /\ ~result[1].is_ok

(***************************************************************************)
(* C12: the empty source, and any source that consists only of whitespace  *)
(* (spaces, tabs, carriage returns), newlines, line comments (// or # to   *)
(* the end of the line) and block comments, parses successfully to a       *)
(* Program with an empty body, and validate returns true.                  *)
(***************************************************************************)
\* the first index from i on at which src holds a newline, Len(src) + 1 if none
RECURSIVE C12_line_end(_, _)
C12_line_end(src, i) ==
    IF i > Len(src) \/ src[i] = "\n" THEN i ELSE C12_line_end(src, i + 1)

\* the index after the first "*/" that starts at i or later, Len(src) + 1 if none
RECURSIVE C12_block_end(_, _)
C12_block_end(src, i) ==
    IF i >= Len(src) THEN Len(src) + 1
    ELSE IF src[i] = "*" /\ src[i + 1] = "/" THEN i + 2
    ELSE C12_block_end(src, i + 1)

\* src, from its i-th character on, is whitespace, newlines and comments only
RECURSIVE C12_only_trivia(_, _)
C12_only_trivia(src, i) ==
    IF i > Len(src) THEN TRUE
    ELSE IF src[i] \in {" ", "\t", "\r", "\n"} THEN C12_only_trivia(src, i + 1)
    ELSE IF src[i] = "#" THEN C12_only_trivia(src, C12_line_end(src, i + 1))
    ELSE IF src[i] = "/" /\ i < Len(src) /\ src[i + 1] = "/"
    THEN C12_only_trivia(src, C12_line_end(src, i + 2))
    ELSE IF src[i] = "/" /\ i < Len(src) /\ src[i + 1] = "*"
    THEN C12_only_trivia(src, C12_block_end(src, i + 2))
    ELSE FALSE

C12_TriviaOnlyParsesEmpty ==
    C12_only_trivia(source, 1) =>
        /\ tokens = <<lex_tokens[Len(lex_tokens)]>>
        /\ is_at_end(0)
        /\ pc = "returned" =>
            /\ result[1].is_ok
            /\ result[1].ast = Some([type |-> "Program", body |-> <<>>, directives |-> <<>>])
        /\ output.validate # None => output.validate[1] = TRUE

\* validate answered for a source made of a line comment, a newline and a
\* block comment
C12_Witness ==
    /\ C12_only_trivia(source, 1)
    /\ \E j \in 1..Len(lex_tokens) : lex_tokens[j].token_type = "Comment"
    /\ \E j \in 1..Len(lex_tokens) : lex_tokens[j].token_type = "BlockComment"
    /\ \E j \in 1..Len(lex_tokens) : lex_tokens[j].token_type = "Newline"
    /\ output.validate = Some(TRUE)

(***************************************************************************)
(* C13: after orb, entity, group, function, object or a generic-object     *)
(* type keyword (cube, sphere, ...) the name must be an Identifier token,  *)
(* and a String token there yields the diagnostic "Expected identifier"    *)
(* at that token; after composition, world, template, npc, quest, ability, *)
(* dialogue, state_machine, achievement and talent_tree both a String      *)
(* token and an Identifier token are accepted as the name.                 *)
(***************************************************************************)
\* the k-th token is a keyword whose name must be an identifier
C13_identifier_only(k) ==
    \/ tokens[k].token_type \in {"Orb", "Entity", "Group", "Function", "Object"}
    \/ tokens[k].token_type = "Identifier" /\ is_object_type(tokens[k].value)

\* the k-th token is a keyword whose name may be a string or an identifier
C13_string_or_identifier(k) ==
    tokens[k].token_type \in
        {"Composition", "World", "Template", "Npc", "Quest", "Ability", "Dialogue",
         "StateMachine", "Achievement", "TalentTree"}

\* r, the result of the declaration that starts at the k-th token, took the
\* token after the keyword as the name
C13_accepted(r, k) ==
    /\ r.ok => /\ "name" \in DOMAIN r.node => r.node.name = tokens[k + 1].value
               /\ "id" \in DOMAIN r.node => r.node.id = tokens[k + 1].value
               /\ {"name", "id"} \cap DOMAIN r.node # {}
    /\ ~r.ok => r.cur > k

\* r is the diagnostic "Expected identifier" at the token after the keyword
C13_rejected(r, k) ==
    /\ ~r.ok
    /\ r.cur = k
    /\ r.error = ParseError_new(<<"Expected identifier">>,
                                tokens[k + 1].line, tokens[k + 1].column)

C14_using_statement(k) ==
    /\ Len(tokens) >= k + 4
    /\ tokens[1].token_type \in {"Composition", "World", "Orb", "Entity", "Template", "Group"}
    /\ tokens[2].token_type = "Identifier"
    /\ tokens[3].token_type = "LBrace"
    /\ k > 3
    /\ tokens[k].token_type = "Using"
    /\ tokens[k + 1].token_type \in {"Identifier", "String"}
    /\ tokens[k + 2].token_type = "LBrace"
    /\ tokens[Len(tokens) - 1].token_type = "RBrace"
    /\ C11_matched(tokens, 1, <<>>)

C14_UsingChild ==
    \A k \in 1..Len(tokens) :
        pc = "returned" /\ C14_using_statement(k) =>
            /\ result[1].is_ok
            /\ \E j \in 1..Len(result[1].ast[1].body[1].children) :
                  /\ result[1].ast[1].body[1].children[j].type = "Using"
                  /\ result[1].ast[1].body[1].children[j].template = tokens[k + 1].value

(***************************************************************************)
(* C15: template usage parses without errors: a composition that contains  *)
(* a template with a quoted name and a declaration                         *)
(* `object "<Name>" using "<Template>" { properties }` yields an AST and   *)
(* no diagnostics.                                                         *)
(***************************************************************************)
\* the source is a composition whose body holds a template with a quoted
\* name at the k-th token and an object with a quoted name that uses a
\* quoted template at the j-th token
C15_template_usage(k, j) ==
    /\ tokens[1].token_type = "Composition"
    /\ tokens[2].token_type = "String"
    /\ tokens[3].token_type = "LBrace"
    /\ 3 < k /\ k < j /\ j + 4 <= Len(tokens)
    /\ tokens[k].token_type = "Template"
    /\ tokens[k + 1].token_type = "String"
    /\ tokens[k + 2].token_type = "LBrace"
    /\ tokens[j].token_type = "Object"
    /\ tokens[j + 1].token_type = "String"
    /\ tokens[j + 2].token_type = "Using"
    /\ tokens[j + 3].token_type = "String"
    /\ tokens[j + 4].token_type = "LBrace"
    /\ tokens[Len(tokens) - 1].token_type = "RBrace"
    /\ C11_matched(tokens, 1, <<>>)

C15_TemplateUsageParses ==
    \A k, j \in 1..Len(tokens) :
        C15_template_usage(k, j) =>
            /\ pc = "returned" =>
                /\ result[1].is_ok
                /\ result[1].ast # None
                /\ result[1].errors = <<>>
            /\ output.parse # None => output.parse[1].kind = "ast"

(***************************************************************************)
(* C16: a logic block nested in a composition whose body contains an       *)
(* event-handler entry of the form `on_start: { <statements> }` parses     *)
(* without errors.                                                         *)
(***************************************************************************)
\* the source is a composition whose body holds, at the k-th token, a
\* logic block that starts with an entry `on...: {`
C16_logic_with_handler(k) ==
    /\ tokens[1].token_type = "Composition"
    /\ tokens[2].token_type \in {"String", "Identifier"}
    /\ tokens[3].token_type = "LBrace"
    /\ 3 < k /\ k + 4 <= Len(tokens)
    /\ tokens[k].token_type = "Logic"
    /\ tokens[k + 1].token_type = "LBrace"
    /\ tokens[k + 2].token_type = "Identifier"
    /\ Len(tokens[k + 2].value) >= 2
    /\ SubSeq(tokens[k + 2].value, 1, 2) = <<"o", "n">>
    /\ tokens[k + 3].token_type = "Colon"
    /\ tokens[k + 4].token_type = "LBrace"
    /\ tokens[Len(tokens) - 1].token_type = "RBrace"
    /\ C11_matched(tokens, 1, <<>>)

C16_LogicHandlerParses ==
    \A k \in 1..Len(tokens) :
        C16_logic_with_handler(k) =>
            /\ pc = "returned" => result[1].is_ok /\ result[1].errors = <<>>
            /\ output.parse # None => output.parse[1].kind = "ast"
            /\ output.validate # None => output.validate[1] = TRUE

(***************************************************************************)
(* C17: in a talent-tree node object that has both a string `name` entry   *)
(* and a string `id` entry, TalentNode.name is the value of `name`,        *)
(* whatever the order in which the two entries appear.                     *)
(***************************************************************************)
\* the indices of the entries of talent node n whose key is `key` and whose
\* value is a string literal
C17_string_entries(n, key) ==
    {p \in 1..Len(n.properties) :
        n.properties[p].key = key /\ n.properties[p].value.type = "String"}

C17_name_wins(n) ==
    \A p \in C17_string_entries(n, <<"n", "a", "m", "e">>) :
        /\ C17_string_entries(n, <<"n", "a", "m", "e">>) = {p}
        /\ C17_string_entries(n, <<"i", "d">>) # {}
        => n.name = n.properties[p].value.value

C17_NameOverId ==
    \A d \in 1..Len(ast_body) :
        ast_body[d].type = "TalentTree" =>
            \A tier \in 1..Len(ast_body[d].tiers) :
                \A n \in 1..Len(ast_body[d].tiers[tier].nodes) :
                    C17_name_wins(ast_body[d].tiers[tier].nodes[n])

(***************************************************************************)
(* C18: for every successful parse, every AST node that carries a location *)
(* has 0 <= start.offset <= end.offset <= len(source).                     *)
(***************************************************************************)
\* the locations carried by node n and by the nodes below it.  Locations
\* are given to declarations, traits, properties of entity bodies and event
\* handlers; those nodes are reached through the traits, properties and
\* children of an entity and through the declaration of an export.
RECURSIVE C18_locations(_)
C18_locations(n) ==
    (IF n.loc # None THEN {n.loc[1]} ELSE {})
    \cup UNION {UNION {C18_locations(n[f][j]) : j \in 1..Len(n[f])} :
                  f \in {"traits", "properties", "children"} \cap DOMAIN n}
    \cup (IF n.type = "Export" THEN C18_locations(n.declaration) ELSE {})

C18_program_locations(body) == UNION {C18_locations(body[d]) : d \in 1..Len(body)}

C19_EntityKinds ==
    {"Composition", "World", "Orb", "Entity", "Object", "Template", "Group",
     "Environment", "Logic", "Npc", "Quest", "Ability", "Dialogue", "StateMachine",
     "Achievement", "TalentTree"}

\* the children of n, and of the entities below n, are entities or Using nodes
RECURSIVE C19_children_are_entities(_)
C19_children_are_entities(n) ==
    /\ "children" \in DOMAIN n =>
          \A j \in 1..Len(n.children) :
              /\ n.children[j].type \in C19_EntityKinds \cup {"Using"}
              /\ C19_children_are_entities(n.children[j])
    /\ n.type = "Export" => C19_children_are_entities(n.declaration)

C19_ChildrenAreEntities ==
    pc = "returned" /\ result[1].is_ok =>
        \A d \in 1..Len(result[1].ast[1].body) :
            C19_children_are_entities(result[1].ast[1].body[d])

(***************************************************************************)
(* C20: Null is assignable to Object(_), to Array(_) and to every entity   *)
(* type (Orb, Entity, Composition, World, Template, Group).                *)
(***************************************************************************)
C20_NullAssignable ==
    /\ holo.self = [tag |-> "Null"]
    /\ holo.other.tag \in {"Object", "Array", "Orb", "Entity", "Composition", "World",
                           "Template", "Group"}
    /\ holo.answer # None
    => holo.answer[1] = TRUE

(***************************************************************************)
(* C21: array assignability is covariant and exact: for all types A and B  *)
(* (up to a bounded nesting depth), Array<A>.is_assignable_to(Array<B>) is *)
(* true if and only if A.is_assignable_to(B) is true.                      *)
(***************************************************************************)
C21_ArrayCovariant ==
    /\ holo.self.tag = "Array"
    /\ holo.other.tag = "Array"
    /\ holo.answer # None
    => holo.answer[1] = is_assignable_to(holo.self.inner, holo.other.inner)

\* the call Array<Vec3>.is_assignable_to(Array<Array<Number>>) answered true:
\* the elements differ and are assignable
C21_Witness ==
    /\ holo.self = [tag |-> "Array", inner |-> [tag |-> "Vec3"]]
    /\ holo.other = [tag |-> "Array",
                     inner |-> [tag |-> "Array", inner |-> [tag |-> "Number"]]]
    /\ holo.answer = Some(TRUE)

(***************************************************************************)
(* C22: is_assignable_to admits no subtyping beyond the listed rules:      *)
(* T.is_assignable_to(U) is true only if T = U, or T or U is Any, or T is  *)
(* Null and U is Object, Array or an entity type, or both are arrays with  *)
(* assignable element types, or {T, U} = {Vec3, Array<Number>}, or U is    *)
(* Color and T is String or Vec4.  In particular Color is not assignable   *)
(* to String or Vec4, Vec3 is not assignable to Array<X> for X other than  *)
(* Number, and the relation is not closed under chaining through Any.      *)
(***************************************************************************)
\* the listed rules, read off the claim
RECURSIVE C22_listed(_, _)
C22_listed(T, U) ==
    \/ T = U
    \/ T.tag = "Any" \/ U.tag = "Any"
    \/ /\ T.tag = "Null"
       /\ U.tag \in {"Object", "Array", "Orb", "Entity", "Composition", "World",
                     "Template", "Group"}
    \/ T.tag = "Array" /\ U.tag = "Array" /\ C22_listed(T.inner, U.inner)
    \/ {T, U} = {[tag |-> "Vec3"], [tag |-> "Array", inner |-> [tag |-> "Number"]]}
    \/ U.tag = "Color" /\ T.tag \in {"String", "Vec4"}

C22_NoOtherSubtyping ==
    holo.answer # None =>
        /\ holo.answer[1] => C22_listed(holo.self, holo.other)
        /\ holo.self.tag = "Color" /\ holo.other.tag \in {"String", "Vec4"}
              => ~holo.answer[1]
        /\ holo.self.tag = "Vec3" /\ holo.other.tag = "Array"
             /\ holo.other.inner # [tag |-> "Number"]
              => ~holo.answer[1]
        /\ holo.self.tag = "String" /\ holo.other.tag = "Number"
              => /\ ~holo.answer[1]
                 /\ is_assignable_to(holo.self, [tag |-> "Any"])
                 /\ is_assignable_to([tag |-> "Any"], holo.other)

\* the call Color.is_assignable_to(String) answered false
C22_Witness ==
    /\ holo.self = [tag |-> "Color"]
    /\ holo.other = [tag |-> "String"]
    /\ holo.answer = Some(FALSE)

(***************************************************************************)
(* C23: the trait registry lists exactly 49 traits with pairwise distinct  *)
(* names; for every listed trait get(name) returns a definition whose name *)
(* equals name, and for every string exists(name) is true exactly when     *)
(* get(name) returns a definition (unknown names return not-found, never   *)
(* an error).                                                              *)
(***************************************************************************)
C23_listed_names == {ALL_TRAITS[k][1] : k \in 1..Len(ALL_TRAITS)}

C23_answer_of(call) ==
    registry.answer # None /\ registry.answer[1].call = call

C23_RegistryLookups ==
    /\ C23_answer_of("list_all_traits") =>
          /\ Len(registry.answer[1].value) = 49
          /\ \A j, k \in 1..Len(registry.answer[1].value) :
                j # k => registry.answer[1].value[j].name # registry.answer[1].value[k].name
          /\ {registry.answer[1].value[k].name : k \in 1..Len(registry.answer[1].value)}
                = C23_listed_names
    /\ C23_answer_of("get_trait") =>
          /\ registry.arg \in C23_listed_names <=> registry.answer[1].value # None
          /\ registry.answer[1].value # None =>
                registry.answer[1].value[1].name = registry.arg
    /\ C23_answer_of("trait_exists") =>
          /\ registry.answer[1].value \in BOOLEAN
          /\ registry.answer[1].value <=> get_trait(registry.arg) # None

\* get_trait answered for the last entry of the registry
C23_Witness ==
    /\ C23_answer_of("get_trait")
    /\ registry.arg = <<"l", "i", "t">>
    /\ registry.answer[1].value # None
    /\ registry.answer[1].value[1].category = "visual"

(***************************************************************************)
(* C24: suggest(description) never fails and returns, in fixed rule order  *)
(* and without duplicates, exactly the registry traits whose substring     *)
(* rule matches the lower-cased description; when no rule matches it       *)
(* returns [grabbable] if the text mentions "interact" or "object" and the *)
(* empty list otherwise; every returned trait exists in the registry.      *)
(***************************************************************************)
\* the table of rules, in their order: the trait, its patterns, and whether
\* all of them or any one of them must occur
C24_Rules ==
    << [trait |-> <<"g", "r", "a", "b", "b", "a", "b", "l", "e">>,
         all |-> FALSE,
         patterns |-> {<<"g", "r", "a", "b">>,
                       <<"p", "i", "c", "k", " ", "u", "p">>,
                       <<"h", "o", "l", "d">>}],
       [trait |-> <<"t", "h", "r", "o", "w", "a", "b", "l", "e">>,
         all |-> FALSE,
         patterns |-> {<<"t", "h", "r", "o", "w">>,
                       <<"t", "o", "s", "s">>}],
       [trait |-> <<"c", "l", "i", "c", "k", "a", "b", "l", "e">>,
         all |-> FALSE,
         patterns |-> {<<"c", "l", "i", "c", "k">>,
                       <<"p", "r", "e", "s", "s">>,
                       <<"b", "u", "t", "t", "o", "n">>}],
       [trait |-> <<"d", "r", "a", "g", "g", "a", "b", "l", "e">>,
         all |-> FALSE,
         patterns |-> {<<"d", "r", "a", "g">>}],
       [trait |-> <<"p", "o", "i", "n", "t", "a", "b", "l", "e">>,
         all |-> FALSE,
         patterns |-> {<<"p", "o", "i", "n", "t">>,
                       <<"l", "a", "s", "e", "r">>}],
       [trait |-> <<"s", "c", "a", "l", "a", "b", "l", "e">>,
         all |-> FALSE,
         patterns |-> {<<"r", "e", "s", "i", "z", "e">>,
                       <<"s", "c", "a", "l", "e">>}],
       [trait |-> <<"c", "o", "l", "l", "i", "d", "a", "b", "l", "e">>,
         all |-> FALSE,
         patterns |-> {<<"c", "o", "l", "l", "i", "d", "e">>,
                       <<"c", "o", "l", "l", "i", "s", "i", "o", "n">>,
                       <<"s", "o", "l", "i", "d">>}],
       [trait |-> <<"p", "h", "y", "s", "i", "c", "s">>,
         all |-> FALSE,
         patterns |-> {<<"p", "h", "y", "s", "i", "c">>,
                       <<"b", "o", "u", "n", "c", "e">>,
                       <<"f", "a", "l", "l">>}],
       [trait |-> <<"r", "i", "g", "i", "d">>,
         all |-> FALSE,
         patterns |-> {<<"r", "i", "g", "i", "d">>}],
       [trait |-> <<"g", "r", "a", "v", "i", "t", "y">>,
         all |-> FALSE,
         patterns |-> {<<"g", "r", "a", "v", "i", "t", "y">>}],
       [trait |-> <<"t", "r", "i", "g", "g", "e", "r">>,
         all |-> FALSE,
         patterns |-> {<<"t", "r", "i", "g", "g", "e", "r">>,
                       <<"d", "e", "t", "e", "c", "t">>}],
       [trait |-> <<"g", "l", "o", "w", "i", "n", "g">>,
         all |-> FALSE,
         patterns |-> {<<"g", "l", "o", "w">>,
                       <<"l", "i", "g", "h", "t", " ", "u", "p">>,
                       <<"s", "h", "i", "n", "e">>}],
       [trait |-> <<"t", "r", "a", "n", "s", "p", "a", "r", "e", "n", "t">>,
         all |-> FALSE,
         patterns |-> {<<"t", "r", "a", "n", "s", "p", "a", "r">>,
                       <<"s", "e", "e", " ", "t", "h", "r", "o", "u", "g", "h">>,
                       <<"g", "l", "a", "s", "s">>}],
       [trait |-> <<"r", "e", "f", "l", "e", "c", "t", "i", "v", "e">>,
         all |-> FALSE,
         patterns |-> {<<"r", "e", "f", "l", "e", "c", "t">>,
                       <<"m", "i", "r", "r", "o", "r">>}],
       [trait |-> <<"a", "n", "i", "m", "a", "t", "e", "d">>,
         all |-> FALSE,
         patterns |-> {<<"a", "n", "i", "m", "a", "t">>}],
       [trait |-> <<"b", "i", "l", "l", "b", "o", "a", "r", "d">>,
         all |-> FALSE,
         patterns |-> {<<"b", "i", "l", "l", "b", "o", "a", "r", "d">>,
                       <<"f", "a", "c", "e", " ", "c", "a", "m", "e", "r", "a">>}],
       [trait |-> <<"n", "e", "t", "w", "o", "r", "k", "e", "d">>,
         all |-> FALSE,
         patterns |-> {<<"n", "e", "t", "w", "o", "r", "k">>,
                       <<"m", "u", "l", "t", "i", "p", "l", "a", "y">>,
                       <<"s", "y", "n", "c">>}],
       [trait |-> <<"p", "e", "r", "s", "i", "s", "t", "e", "n", "t">>,
         all |-> FALSE,
         patterns |-> {<<"p", "e", "r", "s", "i", "s", "t">>,
                       <<"s", "a", "v", "e">>}],
       [trait |-> <<"h", "o", "s", "t", "_", "o", "n", "l", "y">>,
         all |-> FALSE,
         patterns |-> {<<"h", "o", "s", "t">>,
                       <<"s", "e", "r", "v", "e", "r">>}],
       [trait |-> <<"s", "t", "a", "c", "k", "a", "b", "l", "e">>,
         all |-> FALSE,
         patterns |-> {<<"s", "t", "a", "c", "k">>,
                       <<"p", "i", "l", "e">>}],
       [trait |-> <<"a", "t", "t", "a", "c", "h", "a", "b", "l", "e">>,
         all |-> FALSE,
         patterns |-> {<<"a", "t", "t", "a", "c", "h">>,
                       <<"c", "o", "n", "n", "e", "c", "t">>}],
       [trait |-> <<"e", "q", "u", "i", "p", "p", "a", "b", "l", "e">>,
         all |-> FALSE,
         patterns |-> {<<"e", "q", "u", "i", "p">>,
                       <<"w", "e", "a", "r">>,
                       <<"t", "o", "o", "l">>}],
       [trait |-> <<"c", "o", "n", "s", "u", "m", "a", "b", "l", "e">>,
         all |-> FALSE,
         patterns |-> {<<"c", "o", "n", "s", "u", "m", "e">>,
                       <<"e", "a", "t">>,
                       <<"d", "r", "i", "n", "k">>}],
       [trait |-> <<"d", "e", "s", "t", "r", "u", "c", "t", "i", "b", "l", "e">>,
         all |-> FALSE,
         patterns |-> {<<"d", "e", "s", "t", "r", "o", "y">>,
                       <<"b", "r", "e", "a", "k">>}],
       [trait |-> <<"a", "n", "c", "h", "o", "r">>,
         all |-> FALSE,
         patterns |-> {<<"a", "n", "c", "h", "o", "r">>,
                       <<"f", "i", "x", "e", "d", " ", "p", "o", "s", "i", "t", "i", "o", "n">>}],
       [trait |-> <<"t", "r", "a", "c", "k", "e", "d">>,
         all |-> FALSE,
         patterns |-> {<<"t", "r", "a", "c", "k">>,
                       <<"f", "o", "l", "l", "o", "w">>}],
       [trait |-> <<"h", "a", "n", "d", "_", "t", "r", "a", "c", "k", "e", "d">>,
         all |-> TRUE,
         patterns |-> {<<"h", "a", "n", "d">>,
                       <<"t", "r", "a", "c", "k">>}],
       [trait |-> <<"e", "y", "e", "_", "t", "r", "a", "c", "k", "e", "d">>,
         all |-> TRUE,
         patterns |-> {<<"e", "y", "e">>,
                       <<"t", "r", "a", "c", "k">>}],
       [trait |-> <<"s", "p", "a", "t", "i", "a", "l", "_", "a", "u", "d", "i", "o">>,
         all |-> FALSE,
         patterns |-> {<<"s", "o", "u", "n", "d">>,
                       <<"a", "u", "d", "i", "o">>,
                       <<"3", "d", " ", "a", "u", "d", "i", "o">>}],
       [trait |-> <<"a", "m", "b", "i", "e", "n", "t">>,
         all |-> TRUE,
         patterns |-> {<<"a", "m", "b", "i", "e", "n", "t">>,
                       <<"s", "o", "u", "n", "d">>}],
       [trait |-> <<"v", "o", "i", "c", "e", "_", "a", "c", "t", "i", "v", "a", "t", "e", "d">>,
         all |-> FALSE,
         patterns |-> {<<"v", "o", "i", "c", "e">>,
                       <<"s", "p", "e", "e", "c", "h">>}],
       [trait |-> <<"s", "t", "a", "t", "e">>,
         all |-> FALSE,
         patterns |-> {<<"s", "t", "a", "t", "e">>}],
       [trait |-> <<"r", "e", "a", "c", "t", "i", "v", "e">>,
         all |-> FALSE,
         patterns |-> {<<"r", "e", "a", "c", "t", "i", "v", "e">>,
                       <<"r", "e", "s", "p", "o", "n", "d">>}] >>

C24_occurs(s, pat) ==
    \E i \in 1..(Len(s) - Len(pat) + 1) : SubSeq(s, i, i + Len(pat) - 1) = pat

C24_matches(rule, lower) ==
    IF rule.all
    THEN \A pat \in rule.patterns : C24_occurs(lower, pat)
    ELSE \E pat \in rule.patterns : C24_occurs(lower, pat)

\* the names the claim gives for a lower-cased description
C24_expected(lower) ==
    LET matched == SelectSeq(C24_Rules, LAMBDA rule : C24_matches(rule, lower))
    IN  IF matched # <<>> THEN [k \in 1..Len(matched) |-> matched[k].trait]
        ELSE IF \/ C24_occurs(lower, <<"i", "n", "t", "e", "r", "a", "c", "t">>)
                \/ C24_occurs(lower, <<"o", "b", "j", "e", "c", "t">>)
        THEN <<<<"g", "r", "a", "b", "b", "a", "b", "l", "e">>>>
        ELSE <<>>

C24_names(defs) == [k \in 1..Len(defs) |-> defs[k].name]

C24_SuggestByRules ==
    /\ registry.answer # None
    /\ registry.answer[1].call = "suggest_traits_for_description"
    => /\ ~registry.answer[1].value.panicked
       /\ C24_names(registry.answer[1].value.value)
             = C24_expected(to_lowercase(registry.arg))
       /\ \A j, k \in 1..Len(registry.answer[1].value.value) :
             j # k => registry.answer[1].value.value[j].name
                        # registry.answer[1].value.value[k].name
       /\ \A k \in 1..Len(registry.answer[1].value.value) :
             \E j \in 1..Len(ALL_TRAITS) :
                 /\ ALL_TRAITS[j][1] = registry.answer[1].value.value[k].name
                 /\ ALL_TRAITS[j][2] = registry.answer[1].value.value[k].category

\* suggest answered with two traits or more for a description that has
\* capital letters
C24_Witness ==
    /\ registry.answer # None
    /\ registry.answer[1].call = "suggest_traits_for_description"
    /\ Len(registry.answer[1].value.value) >= 2
    /\ to_lowercase(registry.arg) # registry.arg


(***************************************************************************)
(* C25: inside an entity body the next item is classified in this order:   *)
(* a Trait token starts a trait; a child-entity keyword starts a child; an *)
(* identifier that begins with "on" and is followed by ':' starts an event *)
(* handler, which needs a '{' block; an identifier that names an object    *)
(* type (cube, sphere, plane, cylinder, mesh, light, camera) starts a      *)
(* generic-object child, also when ':' follows it; any other identifier    *)
(* starts a property; any other token is the diagnostic "Expected trait,   *)
(* property, or nested object".                                            *)
(***************************************************************************)
\* the keywords that start a child of an entity body
C25_ChildKeywords ==
    {"Orb", "Entity", "Object", "Group", "Template", "Environment", "Logic",
     "Npc", "Quest", "Dialogue", "Using"}

C25_ObjectTypes ==
    { <<"c", "u", "b", "e">>, <<"s", "p", "h", "e", "r", "e">>,
      <<"p", "l", "a", "n", "e">>, <<"c", "y", "l", "i", "n", "d", "e", "r">>,
      <<"m", "e", "s", "h">>, <<"l", "i", "g", "h", "t">>,
      <<"c", "a", "m", "e", "r", "a">> }

\* the class of the item that starts at cursor c, by the order of the claim
C25_class(c) ==
    LET t == tokens[c + 1]
    IN  IF t.token_type = "Trait" THEN "trait"
        ELSE IF t.token_type \in C25_ChildKeywords THEN "child"
        ELSE IF t.token_type = "Identifier"
        THEN IF /\ Len(t.value) >= 2 /\ t.value[1] = "o" /\ t.value[2] = "n"
                /\ tokens[c + 2].token_type = "Colon"
             THEN "handler"
             ELSE IF t.value \in C25_ObjectTypes THEN "generic"
             ELSE "property"
        ELSE "other"

\* body, the result of the entity body that starts with the item of result
\* item, failed as the item did, or has the node of the item as the first
\* element of the list named field and no element before it in the others
C25_first(body, item, field) ==
    /\ ~item.ok => body = item
    /\ item.ok /\ body.ok =>
          /\ Len(body.node[field]) >= 1
          /\ body.node[field][1] = item.node
          /\ \A other \in {"traits", "properties", "children"} \ {field} :
                \A i \in 1..Len(body.node[other]) :
                    body.node[other][i] # item.node

\* the classification at cursor c, where an item starts
C25_classified(c) ==
    /\ C25_class(c) = "trait" =>
          C25_first(production("parse_object_body", c),
                    production("parse_trait", c), "traits")
    /\ C25_class(c) = "child" =>
          C25_first(production("parse_object_body", c),
                    production("parse_top_level", c), "children")
    /\ C25_class(c) = "handler" =>
          /\ C25_first(production("parse_object_body", c),
                       production("parse_event_handler", c), "children")
          /\ tokens[c + 3].token_type # "LBrace" =>
                ~production("parse_object_body", c).ok
    /\ C25_class(c) = "generic" =>
          /\ C25_first(production("parse_object_body", c),
                       parse_generic_object(c, tokens[c + 1].value), "children")
          /\ tokens[c + 2].token_type = "Colon" =>
                production("parse_object_body", c) =
                    Err(c + 1, <<"Expected identifier">>)
    /\ C25_class(c) = "property" =>
          C25_first(production("parse_object_body", c),
                    production("parse_property", c), "properties")
    /\ C25_class(c) = "other" =>
          production("parse_object_body", c) =
              Err(c, <<"Expected trait, property, or nested object">>)

\* the result of the item that starts at cursor c, by its class
C25_item(c) ==
    CASE C25_class(c) = "trait" -> production("parse_trait", c)
      [] C25_class(c) = "child" -> production("parse_top_level", c)
      [] C25_class(c) = "handler" -> production("parse_event_handler", c)
      [] C25_class(c) = "generic" -> parse_generic_object(c, tokens[c + 1].value)
      [] C25_class(c) = "property" -> production("parse_property", c)
      [] OTHER -> Err(c, <<"Expected trait, property, or nested object">>)

\* every item of the entity body from cursor c on, one after the other
RECURSIVE C25_items(_)
C25_after(item) == item.ok => C25_items(item.cur)

C25_items(c) ==
    tokens[c + 1].token_type \notin {"RBrace", "Eof"} =>
        C25_classified(c) /\ C25_after(C25_item(c))

\* the source is an entity with a braced body: keyword, name, '{'
C25_entity_with_body ==
    /\ Len(tokens) > 3
    /\ tokens[1].token_type \in
           {"Composition", "World", "Orb", "Entity", "Object", "Template", "Group"}
    /\ tokens[2].token_type \in {"Identifier", "String"}
    /\ tokens[3].token_type = "LBrace"

C25_BodyClassification == C25_entity_with_body => C25_items(3)

\* parse returned for an entity whose body has an item of every class, an
\* object type followed by ':' among them
C25_Witness ==
    /\ pc = "returned"
    /\ C25_entity_with_body
    /\ \A class \in {"trait", "child", "handler", "generic", "property"} :
          \E c \in 3..(Len(tokens) - 2) : C25_class(c) = class
    /\ \E c \in 3..(Len(tokens) - 2) :
          C25_class(c) = "generic" /\ tokens[c + 2].token_type = "Colon"
    /\ ~result[1].is_ok


(***************************************************************************)
(* C26: every entity-starting keyword of the dispatch of parse_top_level   *)
(* (composition, world, orb, entity, object, template, group, environment, *)
(* logic, npc, quest, ability, dialogue, achievement, state_machine,       *)
(* talent_tree) is accepted as a nested child where an item of an entity   *)
(* body starts, and is parsed by the production that parses it at top      *)
(* level.                                                                  *)
(***************************************************************************)
C26_EntityKeywords ==
    {"Composition", "World", "Orb", "Entity", "Object", "Template", "Group",
     "Environment", "Logic", "Npc", "Quest", "Ability", "Dialogue", "Achievement",
     "StateMachine", "TalentTree"}

\* body, the result of the entity body whose first item starts with an
\* entity keyword, is what the top-level production makes of that item:
\* its error, or its node as the first child
C26_nested(body, top) ==
    /\ ~top.ok => body = top
    /\ top.ok /\ body.ok =>
          /\ Len(body.node.children) >= 1
          /\ body.node.children[1] = top.node
    /\ top.ok => body.ok \/ body.cur >= top.cur

\* the source is an entity whose body starts with an entity keyword
C26_keyword_in_body ==
    /\ Len(tokens) > 4
    /\ tokens[1].token_type \in
           {"Composition", "World", "Orb", "Entity", "Object", "Template", "Group"}
    /\ tokens[2].token_type \in {"Identifier", "String"}
    /\ tokens[3].token_type = "LBrace"
    /\ tokens[4].token_type \in C26_EntityKeywords

C26_NestedEntityKeywords ==
    C26_keyword_in_body =>
        C26_nested(production("parse_object_body", 3), production("parse_top_level", 3))


(***************************************************************************)
(* C27: in a state_machine body every entry of a `states: { ... }` map     *)
(* becomes one State, named by its string or identifier and holding its    *)
(* own properties, in source order, with or without commas between the     *)
(* states; every other `key: value` pair is a property of the state        *)
(* machine, in source order, and is never a state.                         *)
(***************************************************************************)
\* how many brackets are open before the k-th token
C27_depth(k) ==
    Cardinality({j \in 1..(k - 1) :
                    tokens[j].token_type \in {"LBrace", "LBracket", "LParen"}})
    - Cardinality({j \in 1..(k - 1) :
                    tokens[j].token_type \in {"RBrace", "RBracket", "RParen"}})

\* the source starts with a state machine: keyword, name, '{'
C27_state_machine_first ==
    /\ Len(tokens) > 3
    /\ tokens[1].token_type = "StateMachine"
    /\ tokens[2].token_type \in {"String", "Identifier"}
    /\ tokens[3].token_type = "LBrace"

\* the tokens of the body of that state machine: those up to the '}' that
\* closes it
C27_body ==
    {k \in 4..(Len(tokens) - 1) : \A j \in 4..k : C27_depth(j) >= 1}

\* the keys of the body: identifiers followed by ':' directly in the body
C27_keys ==
    {k \in C27_body : /\ C27_depth(k) = 1
                      /\ tokens[k].token_type = "Identifier"
                      /\ tokens[k + 1].token_type = "Colon"}

C27_states_key == <<"s", "t", "a", "t", "e", "s">>

C27_property_keys == {k \in C27_keys : tokens[k].value # C27_states_key}

\* the names of the entries of the `states: { ... }` maps: a string or an
\* identifier followed by ':' directly in a map whose key is `states`
C27_state_names ==
    {k \in C27_body :
        /\ C27_depth(k) = 2
        /\ tokens[k].token_type \in {"String", "Identifier"}
        /\ tokens[k + 1].token_type = "Colon"
        /\ \E key \in C27_keys \ C27_property_keys :
              /\ key < k
              /\ \A other \in C27_keys : other < k => other <= key}

\* the place of position k among the positions S, in source order
C27_rank(S, k) == Cardinality({j \in S : j <= k})

\* state is the State of the entry whose name is the k-th token, own is the
\* result of the properties between its braces
C27_state_of(state, own, k) ==
    /\ state.name = tokens[k].value
    /\ own.ok /\ state.properties = own.node

\* property is the pair whose key is the k-th token, value is the result of
\* the expression after the ':'
C27_property_of(property, value, k) ==
    /\ property.key = tokens[k].value
    /\ value.ok /\ property.value = value.node

C27_machine(sm) ==
    /\ Len(sm.states) = Cardinality(C27_state_names)
    /\ \A k \in C27_state_names :
          C27_state_of(sm.states[C27_rank(C27_state_names, k)],
                       production("parse_properties_only", k + 2), k)
    /\ Len(sm.properties) = Cardinality(C27_property_keys)
    /\ \A k \in C27_property_keys :
          C27_property_of(sm.properties[C27_rank(C27_property_keys, k)],
                          production("parse_expression", k + 1), k)

C27_StatesAndProperties ==
    pc = "returned" /\ C27_state_machine_first /\ result[1].is_ok =>
        /\ result[1].ast[1].body[1].type = "StateMachine"
        /\ C27_machine(result[1].ast[1].body[1])

\* parse returned a state machine that has properties before and after its
\* states, two states with a comma between them and two without, a state
\* named by a string and one named by an identifier
C27_Witness ==
    /\ pc = "returned" /\ C27_state_machine_first /\ result[1].is_ok
    /\ \E a, b \in C27_property_keys : \E s \in C27_state_names : a < s /\ s < b
    /\ \E s \in C27_state_names : tokens[s - 1].token_type = "Comma"
    /\ \E s \in C27_state_names :
          /\ tokens[s - 1].token_type = "RBrace"
          /\ C27_rank(C27_state_names, s) > 1
    /\ \E s, t \in C27_state_names :
          tokens[s].token_type = "String" /\ tokens[t].token_type = "Identifier"
    /\ \E s \in C27_state_names : tokens[s + 3].token_type = "Identifier"


(***************************************************************************)
(* C28: an import statement is accepted exactly when it has the form       *)
(* `import { spec (, spec)* } from STRING` with spec `IDENT (as IDENT)?`:  *)
(* without the `from` keyword, or without the braced list of at least one  *)
(* specifier, it yields a diagnostic; a specifier without `as` has local   *)
(* equal to imported.                                                      *)
(***************************************************************************)
\* the type of the k-th token, Eof beyond the end
C28_type(k) == IF k <= Len(tokens) THEN tokens[k].token_type ELSE "Eof"

\* the position after the '}' of `spec (, spec)* }` that starts at the k-th
\* token, 0 when the tokens have no such form
RECURSIVE C28_specs(_)
C28_after_spec(k) ==
    IF C28_type(k) = "RBrace" THEN k + 1
    ELSE IF C28_type(k) = "Comma" THEN C28_specs(k + 1)
    ELSE 0

C28_specs(k) ==
    IF C28_type(k) # "Identifier" THEN 0
    ELSE IF C28_type(k + 1) = "As"
    THEN IF C28_type(k + 2) = "Identifier" THEN C28_after_spec(k + 3) ELSE 0
    ELSE C28_after_spec(k + 1)

\* `from STRING` starts at the k-th token
C28_from_string(k) == k > 0 /\ C28_type(k) = "From" /\ C28_type(k + 1) = "String"

\* the statement that starts at the first token has the form of the claim
C28_form == C28_type(2) = "LBrace" /\ C28_from_string(C28_specs(3))

\* every specifier written without `as` has local = imported
C28_locals(r) ==
    r.ok => \A i \in 1..Len(r.node.specifiers) :
                \/ r.node.specifiers[i].local = r.node.specifiers[i].imported
                \/ \E k \in 3..(Len(tokens) - 2) :
                      /\ tokens[k].value = r.node.specifiers[i].imported
                      /\ tokens[k + 1].token_type = "As"
                      /\ tokens[k + 2].value = r.node.specifiers[i].local

C28_accepted_iff_form(r) == (r.ok <=> C28_form) /\ C28_locals(r)

C28_ImportForm ==
    C28_type(1) = "Import" => C28_accepted_iff_form(production("parse_top_level", 0))


(***************************************************************************)
(* C29: parse_expression builds the tree of the precedence ladder: binary  *)
(* operators of one level associate to the left; an operator of a higher   *)
(* level (||, &&, equality, comparison, additive, multiplicative, rising)  *)
(* binds its operands more tightly than one of a lower level; prefix '!'   *)
(* and '-' nest to the right and bind tighter than every binary operator;  *)
(* `a.b(c)` yields Call(Member(a, b), [c]).                                *)
(***************************************************************************)
\* the level of a binary operator token, 0 for any other token
C29_level(type) ==
    CASE type = "Or" -> 1
      [] type = "And" -> 2
      [] type \in {"Eq", "Ne"} -> 3
      [] type \in {"Lt", "Gt", "Le", "Ge"} -> 4
      [] type \in {"Plus", "Minus"} -> 5
      [] type \in {"Star", "Slash", "Percent"} -> 6
      [] OTHER -> 0

C29_atom(k) == tokens[k].token_type \in {"Identifier", "Number", "Boolean", "String"}

\* the last token of the expression of atoms, prefix operators and binary
\* operators that starts at the k-th token, 0 when an operand is missing
RECURSIVE C29_end(_)
C29_end(k) ==
    IF tokens[k].token_type \in {"Bang", "Minus"} THEN C29_end(k + 1)
    ELSE IF ~C29_atom(k) THEN 0
    ELSE IF C29_level(tokens[k + 1].token_type) > 0 THEN C29_end(k + 2)
    ELSE IF tokens[k + 1].token_type \in {"Dot", "LParen", "LBracket"} THEN 0
    ELSE k

\* the binary operators among the tokens lo..hi: those that follow an atom
C29_binary(lo, hi) ==
    {j \in (lo + 1)..hi : C29_level(tokens[j].token_type) > 0 /\ C29_atom(j - 1)}

\* the operator at the root of the tree of lo..hi: of those of the lowest
\* level, the last
C29_root(lo, hi) ==
    CHOOSE j \in C29_binary(lo, hi) :
        \A i \in C29_binary(lo, hi) :
            \/ C29_level(tokens[i].token_type) > C29_level(tokens[j].token_type)
            \/ C29_level(tokens[i].token_type) = C29_level(tokens[j].token_type) /\ i <= j

\* the tree the ladder gives to the tokens lo..hi
RECURSIVE C29_tree(_, _)
C29_split(lo, j, hi) ==
    [type |-> "BinaryExpression", operator |-> tokens[j].value,
     left |-> C29_tree(lo, j - 1), right |-> C29_tree(j + 1, hi), loc |-> <<>>]

C29_tree(lo, hi) ==
    IF C29_binary(lo, hi) # {} THEN C29_split(lo, C29_root(lo, hi), hi)
    ELSE IF tokens[lo].token_type \in {"Bang", "Minus"}
    THEN [type |-> "UnaryExpression", operator |-> tokens[lo].value,
          argument |-> C29_tree(lo + 1, hi), prefix |-> TRUE, loc |-> <<>>]
    ELSE parse_primary(lo - 1).node

\* r, the result of parse_expression at the token lo, is the tree of lo..hi
C29_is_tree(r, lo, hi) == r.ok /\ r.cur = hi /\ r.node = C29_tree(lo, hi)

\* r, the result of the operand at the k-th token, is Call(Member(a, b), [c])
\* for the tokens a . b ( c )
C29_is_call_of_member(r, k) ==
    /\ r.ok /\ r.cur = k + 5
    /\ r.node =
          [type |-> "CallExpression",
           callee |-> [type |-> "MemberExpression",
                       object |-> [type |-> "Identifier", name |-> tokens[k].value,
                                   loc |-> <<>>],
                       property |-> [type |-> "Identifier",
                                     name |-> tokens[k + 2].value, loc |-> <<>>],
                       computed |-> FALSE, loc |-> <<>>],
           arguments |-> <<[type |-> "Identifier", name |-> tokens[k + 4].value,
                            loc |-> <<>>]>>,
           loc |-> <<>>]

\* the tokens a . b ( c ) start at the k-th token and no call follows them
C29_member_call_at(k) ==
    /\ k + 6 <= Len(tokens)
    /\ \A i \in {0, 2, 4} : tokens[k + i].token_type = "Identifier"
    /\ tokens[k + 1].token_type = "Dot"
    /\ tokens[k + 3].token_type = "LParen"
    /\ tokens[k + 5].token_type = "RParen"
    /\ tokens[k + 6].token_type # "LParen"

C29_PrecedenceLadder ==
    /\ \A k \in 0..(Len(tokens) - 2) :
          /\ (k = 0 \/ tokens[k].token_type = "Colon") /\ C29_end(k + 1) > 0 =>
                C29_is_tree(production("parse_expression", k), k + 1, C29_end(k + 1))
          /\ C29_member_call_at(k + 1) =>
                C29_is_call_of_member(production("parse_unary_expression", k), k + 1)
    /\ pc = "parsed" /\ C29_end(1) > 0 => C29_is_tree(result[1], 1, C29_end(1))

\* parse_expression returned the tree of an expression that has two binary
\* operators of one level with one of a higher level between them, a prefix
\* '-' before the first operand and a prefix '!' before the last
C29_Witness ==
    /\ pc = "parsed" /\ C29_end(1) = Len(tokens) - 1 /\ result[1].ok
    /\ Cardinality(C29_binary(1, C29_end(1))) = 3
    /\ \E i, j \in C29_binary(1, C29_end(1)) :
          /\ i < j
          /\ C29_level(tokens[i].token_type) = C29_level(tokens[j].token_type)
          /\ \E h \in C29_binary(1, C29_end(1)) :
                /\ i < h /\ h < j
                /\ C29_level(tokens[h].token_type) > C29_level(tokens[i].token_type)
          /\ result[1].node.operator = tokens[j].value
    /\ tokens[1].token_type = "Minus"
    /\ tokens[C29_end(1) - 1].token_type = "Bang"


(***************************************************************************)
(* C30: no index failure can occur in the parser: in every reachable state *)
(* 0 <= current <= index of the Eof token, so that peek reads a token and  *)
(* the cursor never moves past Eof; advance is never executed with         *)
(* current = 0 while the cursor is at Eof, so that tokens[current - 1] is  *)
(* a token; every syntax error is returned as a value, none escapes parse. *)
(***************************************************************************)
\* the index of the Eof token, counted from 0 as Parser::current is
C30_eof == Len(tokens) - 1

\* Eof is the last token and no other
C30_eof_is_last ==
    /\ Len(tokens) >= 1
    /\ \A k \in 1..Len(tokens) : (tokens[k].token_type = "Eof") <=> (k = Len(tokens))

\* r is the result of a declaration that starts at cursor c, on a token that
\* is not Eof: it leaves the cursor between c and Eof; when it failed, its
\* error is a value with the place of a token, and synchronize, which starts
\* with advance, leaves the cursor behind c and not behind Eof
C30_in_bounds(r, c) ==
    /\ c <= r.cur /\ r.cur <= C30_eof
    /\ r.ok => r.cur >= 1
    /\ ~r.ok =>
          /\ r.error.line = tokens[r.cur + 1].line
          /\ r.error.column = tokens[r.cur + 1].column
          /\ r.error.message # <<>>
          /\ c < synchronize(r.cur) /\ synchronize(r.cur) <= C30_eof

\* what parse returned is Ok(ast) or Err(errors), every error a value with
\* message, line and column
C30_returned_value(res) ==
    /\ res.is_ok => res.errors = <<>> /\ res.ast # None
    /\ ~res.is_ok =>
          /\ res.ast = None /\ res.errors # <<>>
          /\ \A i \in 1..Len(res.errors) :
                DOMAIN res.errors[i] = {"message", "line", "column"}

C30_NoIndexFailure ==
    /\ C30_eof_is_last
    /\ 0 <= current /\ current <= C30_eof
    /\ \A c \in 0..(C30_eof - 1) : C30_in_bounds(production("parse_top_level", c), c)
    /\ C30_eof = 0 => current = 0 /\ errors = <<>> /\ ast_body = <<>>
    /\ pc = "returned" => C30_returned_value(result[1])

\* parse returned Err for a source whose first declaration failed at Eof,
\* where advance leaves the cursor
C30_Witness ==
    /\ pc = "returned"
    /\ ~result[1].is_ok
    /\ C30_eof >= 3
    /\ ~production("parse_top_level", 0).ok
    /\ production("parse_top_level", 0).cur = C30_eof
    /\ current = C30_eof

====
